---------------------------- MODULE Spec2Model ----------------------------
(***************************************************************************)
(* A model of the listing scraper / autofill browser extension.            *)
(*                                                                         *)
(*   SpecPrice : the extractor's price parser (parsePriceText) applied to  *)
(*               bounded price texts by scrapeListingFromDom.              *)
(*   SpecMatch : the option matching of the option-group selectors and of  *)
(*               the street autocomplete list, on bounded option lists.    *)
(*   Spec      : the autofill sequence started from the popup: the three   *)
(*               gate steps with their retry timers, the scheduling of the *)
(*               later steps, and the popup's status.                      *)
(*   SpecValue : the value each fill function derives from the listing.    *)
(*   SpecExtract : the extractor's functions on bounded pages.             *)
(*   SpecStreet : fillLocationForm's street typing and selection.          *)
(*   SpecFetch : the background script's fetchImages listener.             *)
(*   SpecTabs  : the popup's scrapeListingsInParallel.                     *)
(*   SpecStore : listingStorage over chrome.storage.local.                 *)
(*   SpecLoader : loadMappings and the caller that injects the mappings.   *)
(*   SpecSearch : the popup's executeSearchOnActiveTab, search after       *)
(*               search on one page.                                       *)
(*                                                                         *)
(* Text is a sequence of one-character strings.  A number is a record      *)
(* [n, s] standing for n / 10^s, kept with no trailing fraction zero, so   *)
(* that equal numbers are equal records; NaN (and the null the parser      *)
(* returns for it) is the record NoNumber.                                 *)
(***************************************************************************)
EXTENDS Integers, Sequences, FiniteSets, TLC

VARIABLES
    \* ---- extractor: price ----
    priceText,      \* text of the price node, as scraped
    pricePc,        \* "scrape" before scrapeListingFromDom ran, "done" after
    priceDetail,    \* propertyDetails['fasi'] : a number, or NoNumber if unset
    \* ---- option matching ----
    mField,         \* the option group (or "street") being filled
    mTarget,        \* the text searched for
    mOptions,       \* the candidate option texts, in DOM order
    mPc,            \* "fill" before the fill function ran, "done" after
    mClicked,       \* index in mOptions of the option clicked, 0 if none
    \* ---- autofill sequence ----
    listing,        \* the record handed to autofillListingForm
    popupPc,        \* position of the popup's handleAutofillClicked
    popupStatus,    \* text of the popup's status label
    timers,         \* pending setTimeout callbacks, in registration order
    retryCount,     \* the retryCount closure variable of each retry loop
    ticks,          \* how often each retry loop's tick function has run
    failures,       \* how often each retry loop's failure path has run
    invoked,        \* the step functions called so far, in call order
    clicked,        \* the elements clicked by the gate steps, in order
    thrown,         \* the errors thrown so far: where each was thrown
    dealTypeVar,    \* selectDealType's local dealType (after normalization)
    priceAttempts,  \* fillPriceField's attempts counter
    priceWrites,    \* how often fillInputValue wrote the price
    priceLog,       \* what fillPriceField did to the page, in order
    street,         \* state of fillLocationForm's typing closure, and the
                    \* events it has dispatched to the page
    upload,         \* position of the async uploadImages call
    \* ---- form driver: the value a fill function works with ----
    fField,         \* the fill function called
    fProps,         \* propertyDetails: [key, value] entries in insertion order
    fParams,        \* additionalParameters, likewise
    fLargestOption, \* the largest numeric option the bedroom group offers
    fPc,            \* "fill" before the fill function ran, "done" after
    fMapped,        \* what the mapping function returned (status, condition)
    fSearch,        \* the option text searched, or the text written
    \* ---- extractor: the functions of scrapeListingFromDom ----
    xStep,          \* the extractor function called
    xText,          \* its text input: page text, address, attribute text
    xMapped,        \* the attribute's entry of the selector mappings
    xSelectors,     \* the attribute's fallback selector list
    xPage,          \* what document.querySelector gives for each selector
    xImgs,          \* the img nodes of the gallery container, in DOM order
    xPc,            \* "scrape" before the function ran, "done" after
    xResult,        \* the value the function returned or stored
    xResultList,    \* the list the function returned
    \* ---- background script: the fetchImages message ----
    imUrls,         \* request.urls
    imPlan,         \* what the network and the FileReader do for each URL
    imTask,         \* position of each URL's async function
    imResponses,    \* the responses handed to sendResponse, in order
    imPc,           \* position of the listener and of Promise.all
    \* ---- popup: scrapeListingsInParallel ----
    tCount,         \* urls.length; the URLs and their tabs are 1..tCount
    tPc,            \* position of scrapeListingsInParallel
    tNext,          \* the URL the opening loop is at
    tMappings,      \* the mappings variable: "loaded", or "empty" for {}
    tOpened,        \* openedTabs
    tLoad,          \* each tab's load status in the browser
    tListener,      \* each tab's onUpdated listener
    tWait,          \* each tab's load wait: pending, or what resolved it
    tTimer,         \* each tab's 15 s timer
    tMissed,        \* the tabs whose 'complete' event found no listener
    tScrape,        \* position of each tab's scrape task
    tResult,        \* what each tab's scrape task returned
    tRemoved,       \* the tabs chrome.tabs.remove was called for
    tReturned,      \* the array scrapeListingsInParallel returned
    \* ---- listingStorage over chrome.storage.local ----
    stStore,        \* chrome.storage.local: each key's value, {} when absent
    stClock,        \* Date.now()
    stLastOp,       \* the storage function called last
    stThrown,       \* whether that call threw
    stGotLatest,    \* what getLatestListing returned last
    stGotResults,   \* what getSearchResults returned last
    stSavedListing, \* the last completed saveLatestListing: listing and time
    stSavedResults, \* the last completed saveSearchResults: batch and time
    \* ---- mappingLoader: loadMappings, and its caller in the popup ----
    ldFetch,        \* how fetch(mappings.csv) will settle
    ldText,         \* the text of mappings.csv
    ldPc,           \* position of loadMappings
    ldMappings,     \* the object loadMappings returned
    ldCaller,       \* position of executeScrapeOnActiveTab
    ldUsed,         \* the mappings executeScrapeOnActiveTab injects
    \* ---- popup: executeSearchOnActiveTab ----
    seSearch,       \* the number of the search under way (0: none yet)
    seButton,       \* the button this search's script will find
    sePage,         \* position of the script injected into the page
    seObserver,     \* the search whose MutationObserver is connected (0: none)
    seWindow,       \* window.__listingUrlsToScrape, with the search that set it
    sePopup,        \* position of the popup's 3000 ms callback
    seRead,         \* the URLs the popup read, with the search that set them
    seSaved         \* what saveSearchResults stored, with the search it is of

priceVars == <<priceText, pricePc, priceDetail>>
matchVars == <<mField, mTarget, mOptions, mPc, mClicked>>
fillVars  == <<listing, popupPc, popupStatus, timers, retryCount, ticks,
               failures, invoked, clicked, thrown, dealTypeVar,
               priceAttempts, priceWrites, priceLog, street, upload>>
valueVars == <<fField, fProps, fParams, fLargestOption, fPc, fMapped, fSearch>>
extractVars == <<xStep, xText, xMapped, xSelectors, xPage, xImgs, xPc,
                 xResult, xResultList>>
imageVars == <<imUrls, imPlan, imTask, imResponses, imPc>>
coreVars == <<priceVars, matchVars, fillVars, valueVars, extractVars>>
tabVars == <<tCount, tPc, tNext, tMappings, tOpened, tLoad, tListener, tWait,
             tTimer, tMissed, tScrape, tResult, tRemoved, tReturned>>
storeVars == <<stStore, stClock, stLastOp, stThrown, stGotLatest, stGotResults,
               stSavedListing, stSavedResults>>
loaderVars == <<ldFetch, ldText, ldPc, ldMappings, ldCaller, ldUsed>>
searchVars == <<seSearch, seButton, sePage, seObserver, seWindow, sePopup,
                seRead, seSaved>>
shellVars == <<imageVars, tabVars, storeVars, loaderVars, searchVars>>
vars == <<coreVars, shellVars>>

-----------------------------------------------------------------------------
(* Bounds of the model.                                                    *)

MaxPriceLen == 6        \* longest enumerated price text
MaxOptions == 2         \* most candidate elements in an option list
MaxCount == 10          \* largest room, bedroom or bathroom count
MaxEntries == 2         \* most entries of an enumerated record object

-----------------------------------------------------------------------------
(* JavaScript string operations on texts.                                  *)

Digits == {"0", "1", "2", "3", "4", "5", "6", "7", "8", "9"}

DigitVal(c) ==
    CASE c = "0" -> 0 [] c = "1" -> 1 [] c = "2" -> 2 [] c = "3" -> 3
      [] c = "4" -> 4 [] c = "5" -> 5 [] c = "6" -> 6 [] c = "7" -> 7
      [] c = "8" -> 8 [] c = "9" -> 9

\* the characters of /[\s\u00A0]/ ("_" stands for U+00A0)
WhiteSpace == {" ", "_", "\n"}

\* String.prototype.includes
Includes(s, sub) ==
    \E i \in 0..(Len(s) - Len(sub)) : SubSeq(s, i + 1, i + Len(sub)) = sub

\* String.prototype.startsWith
StartsWith(s, pre) ==
    Len(pre) <= Len(s) /\ SubSeq(s, 1, Len(pre)) = pre

\* String.prototype.trim
RECURSIVE TrimLeft(_)
TrimLeft(s) ==
    IF s # <<>> /\ Head(s) \in WhiteSpace THEN TrimLeft(Tail(s)) ELSE s

RECURSIVE TrimRight(_)
TrimRight(s) ==
    IF s # <<>> /\ s[Len(s)] \in WhiteSpace
    THEN TrimRight(SubSeq(s, 1, Len(s) - 1)) ELSE s

Trim(s) == TrimRight(TrimLeft(s))

\* s.replace(/c/g, '') for a set of characters
RemoveAll(s, cs) == SelectSeq(s, LAMBDA c : c \notin cs)

\* s.lastIndexOf(c), 1-based; 0 when c does not occur (-1 in JavaScript)
LastIndexOf(s, c) ==
    IF \E i \in 1..Len(s) : s[i] = c
    THEN CHOOSE i \in 1..Len(s) :
             s[i] = c /\ \A j \in (i + 1)..Len(s) : s[j] # c
    ELSE 0

\* s.indexOf(c), 1-based; 0 when c does not occur
IndexOf(s, c) ==
    IF \E i \in 1..Len(s) : s[i] = c
    THEN CHOOSE i \in 1..Len(s) :
             s[i] = c /\ \A j \in 1..(i - 1) : s[j] # c
    ELSE 0

\* s.replace(c, d) with a string pattern: the first occurrence only
ReplaceFirst(s, c, d) ==
    LET i == IndexOf(s, c)
    IN  IF i = 0 THEN s ELSE [s EXCEPT ![i] = d]

\* the last element of s.split(c)
LastPart(s, c) == SubSeq(s, LastIndexOf(s, c) + 1, Len(s))

\* s.split(c).length
PartsLength(s, c) == Len(SelectSeq(s, LAMBDA x : x = c)) + 1

-----------------------------------------------------------------------------
(* Numbers and parseFloat.                                                 *)

NoNumber == [n |-> -1, s |-> 0]

RECURSIVE DigitsToInt(_)
DigitsToInt(ds) ==
    IF ds = <<>> THEN 0
    ELSE 10 * DigitsToInt(SubSeq(ds, 1, Len(ds) - 1)) + DigitVal(ds[Len(ds)])

RECURSIVE StripTrailingZeros(_)
StripTrailingZeros(ds) ==
    IF ds # <<>> /\ ds[Len(ds)] = "0"
    THEN StripTrailingZeros(SubSeq(ds, 1, Len(ds) - 1)) ELSE ds

\* the number with integer digits ip and fraction digits fp
MkNumber(ip, fp) ==
    LET f == StripTrailingZeros(fp)
    IN  [n |-> DigitsToInt(ip \o f), s |-> Len(f)]

\* the longest prefix of s made of digits
RECURSIVE TakeDigits(_)
TakeDigits(s) ==
    IF s # <<>> /\ Head(s) \in Digits
    THEN <<Head(s)>> \o TakeDigits(Tail(s)) ELSE <<>>

\* parseFloat on a text of digits, commas and dots: the longest prefix
\* digits [. digits] holding at least one digit; NaN when there is none
ParseFloat(s) ==
    LET ip   == TakeDigits(s)
        rest == SubSeq(s, Len(ip) + 1, Len(s))
        fp   == IF rest # <<>> /\ Head(rest) = "."
                THEN TakeDigits(Tail(rest)) ELSE <<>>
    IN  IF ip = <<>> /\ fp = <<>> THEN NoNumber ELSE MkNumber(ip, fp)

-----------------------------------------------------------------------------
(* Extractor: parsePriceText and the price step of scrapeListingFromDom.   *)

Separators == {",", "."}

\* text.replace(/[\s\u00A0]/g, '').replace(/[^\d.,]/g, '')
CleanPrice(text) ==
    SelectSeq(RemoveAll(text, WhiteSpace), LAMBDA c : c \in Digits \cup Separators)

\* toNumber: parseFloat, with NaN turned into null
ToNumber(str) == ParseFloat(str)

\* a variant that always takes the dot for the decimal marker
PriceDotIsDecimal(value) == ToNumber(RemoveAll(value, {","}))

\* the branch of parsePriceText for a value holding a comma and a dot
PriceBothSeparators(value) ==
    IF LastIndexOf(value, ".") > LastIndexOf(value, ",")
    THEN ToNumber(RemoveAll(value, {","}))
    ELSE ToNumber(ReplaceFirst(RemoveAll(value, {"."}), ",", "."))

\* the branch of parsePriceText for a value holding commas and no dot
PriceCommaOnly(value) ==
    LET last == LastPart(value, ",")
    IN  IF Len(last) = 3 /\ PartsLength(value, ",") > 1
        THEN ToNumber(RemoveAll(value, {","}))
        ELSE IF Len(last) <= 2
        THEN ToNumber(ReplaceFirst(value, ",", "."))
        ELSE ToNumber(RemoveAll(value, {","}))

\* the branch of parsePriceText for a value holding dots and no comma
PriceDotOnly(value) ==
    LET last == LastPart(value, ".")
    IN  IF Len(last) = 3 /\ PartsLength(value, ".") > 1
        THEN ToNumber(RemoveAll(value, {"."}))
        ELSE ToNumber(value)

parsePriceText(text) ==
    IF text = <<>> THEN NoNumber
    ELSE LET value    == CleanPrice(text)
             hasComma == Includes(value, <<",">>)
             hasDot   == Includes(value, <<".">>)
         IN  IF value = <<>> THEN NoNumber
             ELSE IF hasComma /\ hasDot THEN PriceBothSeparators(value)
             ELSE IF hasComma THEN PriceCommaOnly(value)
             ELSE IF hasDot THEN PriceDotOnly(value)
             ELSE ToNumber(value)

\* the characters of the enumerated price texts
PriceChars == {"1", "0", ",", ".", "$"}

\* price texts named by the documentation of the parser and by the spec
PriceExamples ==
    { <<"1","0","5",",","0","0","0",".","5","0">>,
      <<"1","0","5",".","0","0","0",",","5","0">>,
      <<"1","0","5",",","5","0">>,
      <<"1","0","5",",","0","0","0">>,
      <<"1","0","5",".","0","0","0">>,
      <<"1","0","5"," ","0","0","0"," ","L">>,
      <<"1","0","5",",","0","0","0",".","5","0","$">>,
      <<"1",",","0","0","0",",","0","0","0",".","5","0">>,
      <<"1",".","0","0","0",".","0","0","0",",","5","0">>,
      <<"1",",","0","0","0",",","5","0">>,
      <<"1",".","0","0","0",".","5","0">> }

PriceTexts ==
    PriceExamples \cup UNION { [1..n -> PriceChars] : n \in 0..MaxPriceLen }

PriceIdle ==
    /\ priceText = <<>>
    /\ pricePc = "idle"
    /\ priceDetail = NoNumber

\* the price node's text content: any bounded text
PriceInit ==
    /\ priceText \in PriceTexts
    /\ pricePc = "scrape"
    /\ priceDetail = NoNumber

\* scrapeListingFromDom: price text of the first matching node, parsed and
\* stored in propertyDetails when the parse gives a number
ScrapePrice ==
    /\ pricePc = "scrape"
    /\ LET text == Trim(priceText)
           priceNumber == parsePriceText(text)
       IN  priceDetail' = IF text # <<>> /\ priceNumber # NoNumber
                          THEN priceNumber ELSE NoNumber
    /\ pricePc' = "done"
    /\ UNCHANGED priceText

-----------------------------------------------------------------------------
(* Field Locator: option matching of the option groups and of the street   *)
(* autocomplete list.  An element of a list is [text, kind]: kind "option" *)
(* matches the group's option selector, "clickable" is a clickable div     *)
(* that does not, "both" does both.                                        *)

\* Array.prototype.find, as the index of the element found (0: undefined)
FindIndex(xs, P(_)) ==
    IF \E i \in 1..Len(xs) : P(xs[i])
    THEN CHOOSE i \in 1..Len(xs) : P(xs[i]) /\ \A j \in 1..(i - 1) : ~P(xs[j])
    ELSE 0

\* the indices of xs whose element satisfies P, in order (Array.filter)
FilterIndices(xs, P(_)) ==
    SelectSeq([i \in 1..Len(xs) |-> i], LAMBDA i : P(xs[i]))

\* String.prototype.toLowerCase on the letters of the model
LowerChar(c) == IF c = "A" THEN "a" ELSE IF c = "B" THEN "b" ELSE c
ToLowerCase(s) == [i \in 1..Len(s) |-> LowerChar(s[i])]

\* the elements a querySelectorAll of the option selector returns
IsOptionDiv(e) == e.kind \in {"option", "both"}

\* exact trimmed equality first, then containment either way:
\* the matching of fillRoomsField, and of the functions written like it
ExactThenPartial(els, target) ==
    LET exact == FindIndex(els, LAMBDA e : IsOptionDiv(e) /\ Trim(e.text) = target)
    IN  IF exact # 0 THEN exact
        ELSE FindIndex(els, LAMBDA e :
                 /\ IsOptionDiv(e)
                 /\ \/ Includes(Trim(e.text), target)
                    \/ Includes(target, Trim(e.text)))

RoomsMatch(els, roomText) == ExactThenPartial(els, roomText)
BedroomMatch(els, bedroomText) == ExactThenPartial(els, bedroomText)
BathroomMatch(els, bathroomText) == ExactThenPartial(els, bathroomText)
StatusMatch(els, statusText) == ExactThenPartial(els, statusText)
ConditionMatch(els, conditionText) == ExactThenPartial(els, conditionText)

\* normalizeText of fillProjectTypeField
NormalizeText(value) == ToLowerCase(Trim(value))

\* fillProjectTypeField: one pass over the option elements with equality
\* and containment in one predicate, then one over the clickable elements
ProjectTypeMatch(els, projectValue) ==
    LET projectText == NormalizeText(projectValue)
        Near(text) == \/ text = projectText
                      \/ Includes(text, projectText)
                      \/ Includes(projectText, text)
        first == FindIndex(els, LAMBDA e :
                     IsOptionDiv(e) /\ Near(NormalizeText(e.text)))
    IN  IF first # 0 THEN first
        ELSE FindIndex(els, LAMBDA e :
                 /\ e.kind \in {"clickable", "both"}
                 /\ NormalizeText(e.text) # <<>>
                 /\ Near(NormalizeText(e.text)))

FirstListed(els, is) == 1

\* the index, among the indices is, of the first shortest trimmed text
\* (containingOptions.sort by length, a stable sort, then [0])
FirstShortest(els, is) ==
    CHOOSE k \in 1..Len(is) :
        /\ \A j \in 1..Len(is) :
               Len(Trim(els[is[k]].text)) <= Len(Trim(els[is[j]].text))
        /\ \A j \in 1..(k - 1) :
               Len(Trim(els[is[j]].text)) > Len(Trim(els[is[k]].text))

\* the option fillLocationForm clicks once the street value is typed:
\* exact text, else a text starting with the value, else the shortest
\* text containing it; 0 when no option matches
StreetMatch(els, streetValue) ==
    LET exact  == FindIndex(els, LAMBDA e : Trim(e.text) = streetValue)
        prefix == FindIndex(els, LAMBDA e : StartsWith(Trim(e.text), streetValue))
        containing == FilterIndices(els, LAMBDA e : Includes(Trim(e.text), streetValue))
    IN  IF exact # 0 THEN exact
        ELSE IF prefix # 0 THEN prefix
        ELSE IF containing # <<>> THEN containing[FirstShortest(els, containing)]
        ELSE 0

OptionGroups ==
    {"rooms", "bedrooms", "bathrooms", "status", "condition", "projectType"}

MatchFields == OptionGroups \cup {"street"}

\* the option picked by the fill function of a field
FieldMatch(field, els, target) ==
    CASE field = "rooms"       -> RoomsMatch(els, target)
      [] field = "bedrooms"    -> BedroomMatch(els, target)
      [] field = "bathrooms"   -> BathroomMatch(els, target)
      [] field = "status"      -> StatusMatch(els, target)
      [] field = "condition"   -> ConditionMatch(els, target)
      [] field = "projectType" -> ProjectTypeMatch(els, target)
      [] field = "street"      -> StreetMatch(els, target)

\* the option texts and search texts of the model
MatchTexts ==
    { <<>>, <<"a">>, <<"b">>, <<"a", "b">>, <<"b", "a">>,
      <<" ", "a">>, <<"a", " ">>, <<"A">> }

MatchTargets == { <<"a">>, <<"a", "b">>, <<"A">> }

ElementsOf(field) ==
    { [text |-> t, kind |-> k] :
        t \in MatchTexts,
        k \in IF field = "projectType"
              THEN {"option", "clickable", "both"} ELSE {"option"} }

MatchIdle ==
    /\ mField = "none"
    /\ mTarget = <<>>
    /\ mOptions = <<>>
    /\ mPc = "idle"
    /\ mClicked = 0

\* the elements of the field's container: any bounded list
MatchInit ==
    /\ mField \in MatchFields
    /\ mTarget \in MatchTargets
    /\ mOptions \in UNION { [1..n -> ElementsOf(mField)] : n \in 0..MaxOptions }
    /\ mPc = "fill"
    /\ mClicked = 0

\* the fill function of an option group, its container found: the option
\* matched is clicked
FillOptionGroup ==
    /\ mPc = "fill"
    /\ mField \in OptionGroups
    /\ mClicked' = FieldMatch(mField, mOptions, mTarget)
    /\ mPc' = "done"
    /\ UNCHANGED <<mField, mTarget, mOptions>>

\* fillLocationForm, the street value typed: the option matched is clicked
SelectStreetOption ==
    /\ mPc = "fill"
    /\ mField = "street"
    /\ mClicked' = FieldMatch(mField, mOptions, mTarget)
    /\ mPc' = "done"
    /\ UNCHANGED <<mField, mTarget, mOptions>>

-----------------------------------------------------------------------------
(* Form Driver: the autofill sequence.                                     *)
(*                                                                         *)
(* setTimeout is a list of pending callbacks, each with the time left      *)
(* until it is due; the callback due first runs first, the one registered  *)
(* first among those due together.  A callback runs to completion: every   *)
(* function it calls synchronously is part of its action.  What a locator  *)
(* finds in the host page is the page's choice on every call.              *)

\* the deal-type phrases, letter by letter (transliterated)
Kiravdeba == <<"q", "i", "r", "a", "v", "d", "e", "b", "a">>
KiravdebaDghiurad ==
    Kiravdeba \o <<" ">> \o <<"d", "G", "i", "u", "r", "a", "d">>
Giravdeba == <<"g", "i", "r", "a", "v", "d", "e", "b", "a">>
Ikideba == <<"i", "y", "i", "d", "e", "b", "a">>

\* the values detectDealType can return; <<>> stands for null
ScrapedDealTypes == {KiravdebaDghiurad, Kiravdeba, Giravdeba, Ikideba, <<>>}

CanonicalDealTypes == {Kiravdeba, Ikideba, Giravdeba}

\* selectDealType: the default and the normalization of the deal type
NormalizeDealType(scrapedDealType) ==
    LET dealType == IF scrapedDealType = <<>> THEN Ikideba ELSE scrapedDealType
    IN  IF Includes(dealType, Kiravdeba) THEN Kiravdeba
        ELSE IF Includes(dealType, Ikideba) THEN Ikideba
        ELSE IF Includes(dealType, Giravdeba) THEN Giravdeba
        ELSE dealType

\* a variant that always falls back to the sale deal type
AlternativesAlwaysSale(dealType) == <<Ikideba>>

\* trySelectDealType: the alternative deal types tried on exhaustion
Alternatives(dealType) ==
    IF dealType = Ikideba THEN <<Kiravdeba>> ELSE <<Ikideba>>

\* retry budgets and delays (milliseconds)
CategoryMaxRetries == 3
CategoryRetryDelay == 500
CategorySettleDelay == 500
PropertyTypeMaxRetries == 3
PropertyTypeRetryDelay == 500
PropertyTypeSettleDelay == 500
DealTypeMaxRetries == 3
DealTypeRetryDelay == 500
DealTypeSettleDelay == 1000
LocationDelay == 1000
RemainingFieldsDelay == 2500
BathroomMaxRetries == 5
BathroomRetryDelay == 500
PriceMaxAttempts == 4
PricePollDelay == 120
UploadCheckDelay == 1000
StreetFocusDelay == 500
StreetClearDelay == 300
StreetTypeDelay == 50
StreetSelectDelay == 800
HouseNumberDelay == 2500

\* the retry loops
RetrySteps == {"category", "propertyType", "dealType", "bathroom"}

MaxRetries(step) ==
    CASE step = "category"     -> CategoryMaxRetries
      [] step = "propertyType" -> PropertyTypeMaxRetries
      [] step = "dealType"     -> DealTypeMaxRetries
      [] step = "bathroom"     -> BathroomMaxRetries

\* the tick function of each retry loop, as a timer callback
RetryCallback(step) ==
    CASE step = "category"     -> "trySelectCategory"
      [] step = "propertyType" -> "trySelectPropertyType"
      [] step = "dealType"     -> "trySelectDealType"
      [] step = "bathroom"     -> "tryFillBathroom"

\* the fills fillRemainingFields schedules, with the delay of each, in the
\* order of the setTimeout calls
RemainingFieldTimers ==
    << [cb |-> "fillBedroomField", rem |-> 300],
       [cb |-> "fillAreaField", rem |-> 600],
       [cb |-> "fillFloorField", rem |-> 900],
       [cb |-> "fillTotalFloorField", rem |-> 1200],
       [cb |-> "fillProjectTypeField", rem |-> 1500],
       [cb |-> "fillBathroomFieldWithRetry", rem |-> 2000],
       [cb |-> "fillStatusField", rem |-> 1800],
       [cb |-> "fillConditionField", rem |-> 2100],
       [cb |-> "fillOtherInformation", rem |-> 2400],
       [cb |-> "fillShortDescription", rem |-> 2600],
       [cb |-> "fillDescriptionExplicit", rem |-> 2700] >>

\* ---- the timer list ----

\* setTimeout(cb, delay)
SetTimeout(ts, cb, delay) == Append(ts, [cb |-> cb, rem |-> delay])

\* the timer that runs next: the first of those with the least time left
IsNextTimer(i) ==
    /\ i \in 1..Len(timers)
    /\ \A j \in 1..Len(timers) : timers[i].rem <= timers[j].rem
    /\ \A j \in 1..(i - 1) : timers[j].rem > timers[i].rem

\* the timer list once timer i has come due and been taken off
AfterFiring(i) ==
    [k \in 1..(Len(timers) - 1) |->
        LET t == IF k < i THEN timers[k] ELSE timers[k + 1]
        IN  [t EXCEPT !.rem = t.rem - timers[i].rem]]

\* callback cb is the one the event loop runs next
Due(cb, i) == IsNextTimer(i) /\ timers[i].cb = cb

HasTimer(cb) == \E i \in 1..Len(timers) : timers[i].cb = cb

FillIdle ==
    /\ listing = [present |-> FALSE, dealType |-> <<>>]
    /\ popupPc = "idle"
    /\ popupStatus = "Ready."
    /\ timers = <<>>
    /\ retryCount = [s \in RetrySteps |-> 0]
    /\ ticks = [s \in RetrySteps |-> 0]
    /\ failures = [s \in RetrySteps |-> 0]
    /\ invoked = <<>>
    /\ clicked = <<>>
    /\ thrown = <<>>
    /\ dealTypeVar = <<>>
    /\ priceAttempts = 0
    /\ priceWrites = 0
    /\ priceLog = <<>>
    /\ street = [pc |-> "idle", value |-> <<>>, current |-> <<>>, tried |-> FALSE,
                 events |-> <<>>]
    /\ upload = "idle"

\* ---- the retry loops of the gate steps ----

\* a variant with the comparison off by one
CanRetryInclusive(step) == retryCount[step] <= MaxRetries(step)

\* "retryCount < maxRetries": the loop may schedule another tick
CanRetry(step) == retryCount[step] < MaxRetries(step)

\* a tick that finds its element: the element is clicked and the next step
\* is scheduled after the settle delay; the loop's closure is dropped
GateFound(step, element, base, next, delay) ==
    /\ clicked' = Append(clicked, element)
    /\ timers' = SetTimeout(base, next, delay)
    /\ retryCount' = [retryCount EXCEPT ![step] = 0]
    /\ ticks' = [ticks EXCEPT ![step] = 0]
    /\ UNCHANGED <<failures, thrown>>

\* a tick that finds nothing, with budget left: retryCount++ and the tick
\* is scheduled again
GateRetry(step, base, delay) ==
    /\ retryCount' = [retryCount EXCEPT ![step] = @ + 1]
    /\ ticks' = [ticks EXCEPT ![step] = @ + 1]
    /\ timers' = SetTimeout(base, RetryCallback(step), delay)
    /\ UNCHANGED <<failures, clicked, thrown>>

\* a variant that logs the failure and goes on to the next step
GateExhaustedGoesOn(step, base, where) ==
    /\ failures' = [failures EXCEPT ![step] = @ + 1]
    /\ ticks' = [ticks EXCEPT ![step] = @ + 1]
    /\ thrown' = Append(thrown, [step |-> step, where |-> where])
    /\ timers' = SetTimeout(base,
                     CASE step = "category"     -> "selectPropertyType"
                       [] step = "propertyType" -> "selectDealType"
                       [] step = "dealType"     -> "dealTypeSettled",
                     CategorySettleDelay)
    /\ UNCHANGED <<retryCount, clicked>>

\* a tick that finds nothing, the budget used up: the error is thrown from
\* where the tick runs, and nothing is scheduled
GateExhausted(step, base, where) ==
    /\ failures' = [failures EXCEPT ![step] = @ + 1]
    /\ ticks' = [ticks EXCEPT ![step] = @ + 1]
    /\ thrown' = Append(thrown, [step |-> step, where |-> where])
    /\ timers' = base
    /\ UNCHANGED <<retryCount, clicked>>

\* trySelectCategory
TrySelectCategory(base, where) ==
    \E found \in BOOLEAN :
        IF found
        THEN GateFound("category", "category", base,
                       "selectPropertyType", CategorySettleDelay)
        ELSE IF CanRetry("category")
        THEN GateRetry("category", base, CategoryRetryDelay)
        ELSE GateExhausted("category", base, where)

\* trySelectPropertyType
TrySelectPropertyType(base) ==
    \E found \in BOOLEAN :
        IF found
        THEN GateFound("propertyType", "propertyType", base,
                       "selectDealType", PropertyTypeSettleDelay)
        ELSE IF CanRetry("propertyType")
        THEN GateRetry("propertyType", base, PropertyTypeRetryDelay)
        ELSE GateExhausted("propertyType", base, "timer")

\* trySelectDealType, the budget used up: the alternative deal type is
\* looked for; found, it is clicked and the later steps are scheduled,
\* and otherwise the error is thrown
DealTypeExhausted(dealType, base) ==
    \E altFound \in BOOLEAN :
        IF altFound
        THEN /\ failures' = [failures EXCEPT !["dealType"] = @ + 1]
             /\ ticks' = [ticks EXCEPT !["dealType"] = @ + 1]
             /\ clicked' = Append(clicked, Alternatives(dealType)[1])
             /\ timers' = SetTimeout(base, "altDealTypeSettled", DealTypeSettleDelay)
             /\ UNCHANGED <<retryCount, thrown>>
        ELSE GateExhausted("dealType", base, "timer")

\* trySelectDealType
TrySelectDealType(dealType, base) ==
    \E found \in BOOLEAN :
        IF found
        THEN GateFound("dealType", dealType, base,
                       "dealTypeSettled", DealTypeSettleDelay)
        ELSE IF CanRetry("dealType")
        THEN GateRetry("dealType", base, DealTypeRetryDelay)
        ELSE DealTypeExhausted(dealType, base)

laterVars == <<priceAttempts, priceWrites, priceLog, street, upload>>

\* ---- the popup ----

\* handleAutofillClicked up to the return of the injected function: the
\* stored listing is read, the active tab found, and autofillListingForm
\* runs trySelectCategory once
AutofillClicked ==
    /\ popupPc = "idle"
    /\ \E stored \in {[present |-> FALSE, dealType |-> <<>>]}
                  \cup {[present |-> TRUE, dealType |-> d] : d \in ScrapedDealTypes},
          tabFound \in BOOLEAN :
          IF ~stored.present
          THEN /\ popupStatus' = "error: No scraped data found. Please scrape a listing first."
               /\ popupPc' = "done"
               /\ UNCHANGED <<listing, timers, retryCount, ticks, failures,
                              clicked, thrown>>
          ELSE IF ~tabFound
          THEN /\ popupStatus' = "error: No active tab detected."
               /\ popupPc' = "done"
               /\ UNCHANGED <<listing, timers, retryCount, ticks, failures,
                              clicked, thrown>>
          ELSE /\ popupStatus' = "Autofill starting"
               /\ popupPc' = "injected"
               /\ listing' = stored
               /\ TrySelectCategory(timers, "injected")
    /\ UNCHANGED <<invoked, dealTypeVar, laterVars>>

\* handleAutofillClicked after executeScript resolved: an error thrown by
\* the injected function itself is reported, and otherwise success is
AutofillResolved ==
    /\ popupPc = "injected"
    /\ popupStatus' = IF \E i \in 1..Len(thrown) : thrown[i].where = "injected"
                      THEN "error: injected function threw"
                      ELSE "Autofill complete."
    /\ popupPc' = "done"
    /\ UNCHANGED <<listing, timers, retryCount, ticks, failures, invoked,
                   clicked, thrown, dealTypeVar, laterVars>>

\* ---- the gate steps as timer callbacks ----

\* setTimeout(trySelectCategory, 500)
CategoryRetryTick ==
    \E i \in 1..Len(timers) :
        /\ Due("trySelectCategory", i)
        /\ TrySelectCategory(AfterFiring(i), "timer")
        /\ UNCHANGED <<listing, popupPc, popupStatus, invoked, dealTypeVar,
                       laterVars>>

\* selectPropertyType, called 500 ms after the category click
SelectPropertyType ==
    \E i \in 1..Len(timers) :
        /\ Due("selectPropertyType", i)
        /\ invoked' = Append(invoked, "selectPropertyType")
        /\ TrySelectPropertyType(AfterFiring(i))
        /\ UNCHANGED <<listing, popupPc, popupStatus, dealTypeVar, laterVars>>

\* setTimeout(trySelectPropertyType, 500)
PropertyTypeRetryTick ==
    \E i \in 1..Len(timers) :
        /\ Due("trySelectPropertyType", i)
        /\ TrySelectPropertyType(AfterFiring(i))
        /\ UNCHANGED <<listing, popupPc, popupStatus, invoked, dealTypeVar,
                       laterVars>>

\* selectDealType, called 500 ms after the property-type click
SelectDealType ==
    \E i \in 1..Len(timers) :
        /\ Due("selectDealType", i)
        /\ invoked' = Append(invoked, "selectDealType")
        /\ dealTypeVar' = NormalizeDealType(listing.dealType)
        /\ TrySelectDealType(NormalizeDealType(listing.dealType), AfterFiring(i))
        /\ UNCHANGED <<listing, popupPc, popupStatus, laterVars>>

\* setTimeout(trySelectDealType, 500)
DealTypeRetryTick ==
    \E i \in 1..Len(timers) :
        /\ Due("trySelectDealType", i)
        /\ TrySelectDealType(dealTypeVar, AfterFiring(i))
        /\ UNCHANGED <<listing, popupPc, popupStatus, invoked, dealTypeVar,
                       laterVars>>

\* ---- the steps after the deal type ----

gateVars == <<listing, popupPc, popupStatus, retryCount, ticks, failures,
              clicked, thrown, dealTypeVar>>

\* uploadImages up to its first await: no images, no file input, or the
\* fetchImages message sent to the background script
UploadStarts == {"noImages", "noFileInput", "fetching"}

\* the position of uploadImages after such a start: returned, or awaiting
\* the background script's answer
UploadAfter(start) == IF start = "fetching" THEN "fetching" ELSE "returned"

\* a variant that forgets the timer of fillRemainingFields
ScheduleOnlyLocation(base) == SetTimeout(base, "fillLocation", LocationDelay)

\* the timers set after the deal-type click: fillLocation and
\* fillRemainingFields
ScheduleLaterSteps(base) ==
    SetTimeout(SetTimeout(base, "fillLocation", LocationDelay),
               "fillRemainingFields", RemainingFieldsDelay)

\* the same after the click of the alternative deal type
ScheduleLaterStepsAlt(base) ==
    SetTimeout(SetTimeout(base, "fillLocation", LocationDelay),
               "fillRemainingFields", RemainingFieldsDelay)

\* the callback set by the deal-type click: uploadImages is called, then
\* the two timers are set
DealTypeSettled ==
    \E i \in 1..Len(timers) :
        /\ Due("dealTypeSettled", i)
        /\ invoked' = Append(invoked, "uploadImages")
        /\ \E start \in UploadStarts : upload' = UploadAfter(start)
        /\ timers' = ScheduleLaterSteps(AfterFiring(i))
        /\ UNCHANGED <<gateVars, priceAttempts, priceWrites, priceLog, street>>

\* the callback set by the click of the alternative deal type
AltDealTypeSettled ==
    \E i \in 1..Len(timers) :
        /\ Due("altDealTypeSettled", i)
        /\ invoked' = Append(invoked, "uploadImages")
        /\ \E start \in UploadStarts : upload' = UploadAfter(start)
        /\ timers' = ScheduleLaterStepsAlt(AfterFiring(i))
        /\ UNCHANGED <<gateVars, priceAttempts, priceWrites, priceLog, street>>

\* uploadImages resumed by the background script's answer: a failed
\* answer is caught, no valid file ends the call, and otherwise the files
\* are put on the input and the check is scheduled
UploadResponse ==
    /\ upload = "fetching"
    /\ \E answer \in {"failed", "noValidFiles", "assigned"} :
          /\ upload' = IF answer = "assigned" THEN "assigned" ELSE "returned"
          /\ timers' = IF answer = "assigned"
                       THEN SetTimeout(timers, "uploadCheck", UploadCheckDelay)
                       ELSE timers
    /\ UNCHANGED <<gateVars, invoked, priceAttempts, priceWrites, priceLog, street>>

\* the check one second after the files were put on the input: a cleared
\* input gets them again
UploadCheck ==
    \E i \in 1..Len(timers) :
        /\ Due("uploadCheck", i)
        /\ \E cleared \in BOOLEAN : upload' = "returned"
        /\ timers' = AfterFiring(i)
        /\ UNCHANGED <<gateVars, invoked, priceAttempts, priceWrites, priceLog, street>>

\* ---- location ----

\* the street values of the model: one that is a bare name, one with a
\* leading initial
StreetValues == { <<"k">>, <<"v", ".", " ", "k">> }

GeorgianLetters == {"k", "v"}

\* streetValue.replace(/^[<Georgian letter>]\.\s+/, '')
StripInitial(s) ==
    IF Len(s) >= 3 /\ s[1] \in GeorgianLetters /\ s[2] = "." /\ s[3] \in WhiteSpace
    THEN TrimLeft(SubSeq(s, 3, Len(s)))
    ELSE s

\* the option lists the autocomplete can show
StreetOptionLists ==
    { <<>>,
      <<[text |-> <<"k">>, kind |-> "option"]>>,
      <<[text |-> <<"v", ".", " ", "k">>, kind |-> "option"]>>,
      <<[text |-> <<"b", " ", "k">>, kind |-> "option"],
        [text |-> <<"k", " ", "b">>, kind |-> "option"]>>,
      <<[text |-> <<"a", " ", "b", " ", "k">>, kind |-> "option"],
        [text |-> <<"b", " ", "k">>, kind |-> "option"]>> }

\* fillLocation: with an address, fillLocationForm schedules the typing of
\* the street when the street input is found, and the house number when
\* its input is found and the address holds a number
FillLocation ==
    \E i \in 1..Len(timers) :
        /\ Due("fillLocation", i)
        /\ invoked' = Append(invoked, "fillLocation")
        /\ \E hasAddress \in BOOLEAN, streetInput \in BOOLEAN,
              houseNumber \in BOOLEAN, streetValue \in StreetValues :
              LET t1 == IF hasAddress /\ streetInput
                        THEN SetTimeout(AfterFiring(i), "streetFocus", StreetFocusDelay)
                        ELSE AfterFiring(i)
                  t2 == IF hasAddress /\ houseNumber
                        THEN SetTimeout(t1, "houseNumber", HouseNumberDelay)
                        ELSE t1
              IN  /\ timers' = t2
                  /\ street' = IF hasAddress /\ streetInput
                               THEN [pc |-> "scheduled", value |-> streetValue,
                                     current |-> <<>>, tried |-> FALSE,
                                     events |-> <<>>]
                               ELSE street
        /\ UNCHANGED <<gateVars, priceAttempts, priceWrites, priceLog, upload>>

\* the street input is focused and clicked
StreetFocus ==
    \E i \in 1..Len(timers) :
        /\ Due("streetFocus", i)
        /\ street' = [street EXCEPT !.pc = "focused"]
        /\ timers' = SetTimeout(AfterFiring(i), "streetClear", StreetClearDelay)
        /\ UNCHANGED <<gateVars, invoked, priceAttempts, priceWrites, priceLog, upload>>

\* an event dispatched to the page by the street closure: the input's
\* value or the clicked option's text, and the options shown at that time
StreetEvent(ev, text, options) == [ev |-> ev, text |-> text, options |-> options]

\* typeStreet: the next character is typed and the next call scheduled, or,
\* the value typed, the selection is scheduled.  (events: the events
\* dispatched so far)
TypeStreetStep(base, events) ==
    IF Len(street.current) < Len(street.value)
    THEN LET currentValue == SubSeq(street.value, 1, Len(street.current) + 1)
         IN /\ street' = [street EXCEPT
                             !.pc = "typing",
                             !.current = currentValue,
                             !.events = Append(events, StreetEvent("input", currentValue, <<>>))]
            /\ timers' = SetTimeout(base, "typeStreet", StreetTypeDelay)
    ELSE /\ street' = [street EXCEPT !.pc = "typed", !.events = events]
         /\ timers' = SetTimeout(base, "streetSelect", StreetSelectDelay)

\* the input is cleared and typeStreet called for the first time
StreetClear ==
    \E i \in 1..Len(timers) :
        /\ Due("streetClear", i)
        /\ TypeStreetStep(AfterFiring(i),
                          Append(street.events, StreetEvent("clear", <<>>, <<>>)))
        /\ UNCHANGED <<gateVars, invoked, priceAttempts, priceWrites, priceLog, upload>>

\* setTimeout(typeStreet, 50)
TypeStreet ==
    \E i \in 1..Len(timers) :
        /\ Due("typeStreet", i)
        /\ TypeStreetStep(AfterFiring(i), street.events)
        /\ UNCHANGED <<gateVars, invoked, priceAttempts, priceWrites, priceLog, upload>>

\* 800 ms after the value is typed: the matching option is clicked; with
\* none, the value without its leading initial is typed once, and
\* otherwise Enter is pressed
StreetSelect ==
    \E i \in 1..Len(timers) :
        /\ Due("streetSelect", i)
        /\ \E options \in StreetOptionLists :
              LET surnameCandidate == StripInitial(street.value)
                  matchingOption == StreetMatch(options, street.value)
              IN  IF matchingOption # 0
                  THEN /\ street' = [street EXCEPT
                                        !.pc = "clicked",
                                        !.current = <<>>,
                                        !.events = Append(@,
                                            StreetEvent("click",
                                                options[matchingOption].text,
                                                options))]
                       /\ timers' = AfterFiring(i)
                  ELSE IF /\ ~street.tried
                          /\ surnameCandidate # <<>>
                          /\ surnameCandidate # street.value
                  THEN /\ street' = [pc |-> "retyping", value |-> surnameCandidate,
                                     current |-> <<>>, tried |-> TRUE,
                                     events |-> Append(street.events,
                                         StreetEvent("clear", <<>>, <<>>))]
                       /\ timers' = SetTimeout(AfterFiring(i), "typeStreet", StreetTypeDelay)
                  ELSE /\ street' = [street EXCEPT
                                        !.pc = "enter",
                                        !.current = <<>>,
                                        !.events = Append(@,
                                            StreetEvent("enter", <<>>, options))]
                       /\ timers' = AfterFiring(i)
        /\ UNCHANGED <<gateVars, invoked, priceAttempts, priceWrites, priceLog, upload>>

\* the house number is written 2500 ms after fillLocationForm
HouseNumber ==
    \E i \in 1..Len(timers) :
        /\ Due("houseNumber", i)
        /\ timers' = AfterFiring(i)
        /\ UNCHANGED <<gateVars, invoked, priceAttempts, priceWrites, priceLog, street,
                       upload>>

\* ---- the remaining fields ----

CanPollOnceMore(attempts) == attempts <= PriceMaxAttempts

\* "attempts < 4": tryActive may poll again
CanPollAgain(attempts) == attempts < PriceMaxAttempts

\* tryActive: one poll for the active input.  Found, the price is written;
\* not found, the poll is scheduled again while attempts < 4, and after
\* that the label's own input, if any, is written.  (later: the timers the
\* caller sets after the call; done: what fillPriceField has done so far)
TryActive(base, later, done) ==
    \E activeFound \in BOOLEAN, fallbackFound \in BOOLEAN :
        /\ priceAttempts' = priceAttempts + 1
        /\ IF activeFound
           THEN /\ priceWrites' = priceWrites + 1
                /\ priceLog' = done \o <<"poll", "writeActive">>
                /\ timers' = base \o later
           ELSE IF CanPollAgain(priceAttempts + 1)
           THEN /\ priceWrites' = priceWrites
                /\ priceLog' = done \o <<"poll">>
                /\ timers' = SetTimeout(base, "tryActive", PricePollDelay) \o later
           ELSE /\ priceWrites' = IF fallbackFound THEN priceWrites + 1
                                  ELSE priceWrites
                /\ priceLog' = done \o IF fallbackFound
                                        THEN <<"poll", "writeFallback">>
                                        ELSE <<"poll">>
                /\ timers' = base \o later

\* fillPriceField: without a price or without the USD label nothing is
\* done; otherwise the label is clicked and tryActive called
FillPriceField(base, later) ==
    \E hasPrice \in BOOLEAN, usdLabel \in BOOLEAN :
        IF hasPrice /\ usdLabel
        THEN TryActive(base, later, Append(priceLog, "click"))
        ELSE /\ timers' = base \o later
             /\ UNCHANGED <<priceAttempts, priceWrites, priceLog>>

\* fillRemainingFields: fillPriceField and fillRoomsField are called, then
\* the other fills are scheduled
FillRemainingFields ==
    \E i \in 1..Len(timers) :
        /\ Due("fillRemainingFields", i)
        /\ invoked' = invoked \o <<"fillRemainingFields", "fillPriceField",
                                   "fillRoomsField">>
        /\ FillPriceField(AfterFiring(i), RemainingFieldTimers)
        /\ UNCHANGED <<gateVars, street, upload>>

\* setTimeout(tryActive, 120)
PricePoll ==
    \E i \in 1..Len(timers) :
        /\ Due("tryActive", i)
        /\ TryActive(AfterFiring(i), <<>>, priceLog)
        /\ UNCHANGED <<gateVars, invoked, street, upload>>

\* a fill function that sets no timer, called from its own timer
SimpleFill(cb) ==
    \E i \in 1..Len(timers) :
        /\ Due(cb, i)
        /\ invoked' = Append(invoked, cb)
        /\ timers' = AfterFiring(i)
        /\ UNCHANGED <<gateVars, priceAttempts, priceWrites, priceLog, street, upload>>

FillBedroomField == SimpleFill("fillBedroomField")
FillAreaField == SimpleFill("fillAreaField")
FillFloorField == SimpleFill("fillFloorField")
FillTotalFloorField == SimpleFill("fillTotalFloorField")
FillProjectTypeField == SimpleFill("fillProjectTypeField")
FillStatusField == SimpleFill("fillStatusField")
FillConditionField == SimpleFill("fillConditionField")
FillOtherInformation == SimpleFill("fillOtherInformation")
FillShortDescription == SimpleFill("fillShortDescription")
FillDescriptionExplicit == SimpleFill("fillDescriptionExplicit")

\* tryFillBathroom: with the container found, or the budget used up,
\* fillBathroomField is called (and the exhaustion logged when the
\* container is still missing); otherwise the tick is scheduled again
TryFillBathroom(base, log) ==
    \E container \in BOOLEAN :
        /\ ticks' = [ticks EXCEPT !["bathroom"] = @ + 1]
        /\ IF container \/ ~CanRetry("bathroom")
           THEN /\ invoked' = Append(log, "fillBathroomField")
                /\ failures' = IF ~container
                               THEN [failures EXCEPT !["bathroom"] = @ + 1]
                               ELSE failures
                /\ timers' = base
                /\ UNCHANGED retryCount
           ELSE /\ invoked' = log
                /\ retryCount' = [retryCount EXCEPT !["bathroom"] = @ + 1]
                /\ timers' = SetTimeout(base, "tryFillBathroom", BathroomRetryDelay)
                /\ UNCHANGED failures

\* fillBathroomFieldWithRetry, called from its timer
FillBathroomFieldWithRetry ==
    \E i \in 1..Len(timers) :
        /\ Due("fillBathroomFieldWithRetry", i)
        /\ TryFillBathroom(AfterFiring(i),
                           Append(invoked, "fillBathroomFieldWithRetry"))
        /\ UNCHANGED <<listing, popupPc, popupStatus, clicked, thrown,
                       dealTypeVar, priceAttempts, priceWrites, priceLog, street, upload>>

\* setTimeout(tryFillBathroom, 500)
BathroomRetryTick ==
    \E i \in 1..Len(timers) :
        /\ Due("tryFillBathroom", i)
        /\ TryFillBathroom(AfterFiring(i), invoked)
        /\ UNCHANGED <<listing, popupPc, popupStatus, clicked, thrown,
                       dealTypeVar, priceAttempts, priceWrites, priceLog, street, upload>>

-----------------------------------------------------------------------------
(* Form Driver: the value each fill function derives from the record.      *)
(*                                                                         *)
(* A JavaScript value is a record [kind, num, text]: undefined (also null),*)
(* a number, or a string.  An object is the sequence of its [key, value]   *)
(* entries in insertion order.                                             *)

Undefined == [kind |-> "undefined", num |-> NoNumber, text |-> <<>>]
NumberValue(r) == [kind |-> "number", num |-> r, text |-> <<>>]
Num(k) == NumberValue([n |-> k, s |-> 0])
Str(t) == [kind |-> "string", num |-> NoNumber, text |-> t]

\* ToBoolean: undefined, 0 and the empty string are falsy
Truthy(v) ==
    CASE v.kind = "undefined" -> FALSE
      [] v.kind = "number"    -> v.num.n # 0
      [] v.kind = "string"    -> v.text # <<>>

\* a || b
OrElse(a, b) == IF Truthy(a) THEN a ELSE b

\* obj[key], undefined for a missing key
Lookup(obj, key) ==
    IF \E i \in 1..Len(obj) : obj[i].key = key
    THEN obj[CHOOSE i \in 1..Len(obj) : obj[i].key = key].value
    ELSE Undefined

\* the decimal digits of a natural number
RECURSIVE IntToDigits(_)
IntToDigits(k) ==
    IF k < 10 THEN <<CHOOSE d \in Digits : DigitVal(d) = k>>
    ELSE Append(IntToDigits(k \div 10), CHOOSE d \in Digits : DigitVal(d) = k % 10)

RECURSIVE PadLeft(_, _)
PadLeft(ds, len) == IF Len(ds) >= len THEN ds ELSE PadLeft(<<"0">> \o ds, len)

\* Number.prototype.toString of a number that is not NaN
NumberToString(r) ==
    IF r.s = 0 THEN IntToDigits(r.n)
    ELSE LET ds == PadLeft(IntToDigits(r.n), r.s + 1)
         IN  SubSeq(ds, 1, Len(ds) - r.s) \o <<".">>
             \o SubSeq(ds, Len(ds) - r.s + 1, Len(ds))

\* value.toString()
ValueToString(v) == IF v.kind = "number" THEN NumberToString(v.num) ELSE v.text

\* parseFloat(value): leading white space is skipped
ParseFloatOf(v) ==
    IF v.kind = "number" THEN v.num ELSE ParseFloat(TrimLeft(v.text))

RECURSIVE Pow10(_)
Pow10(k) == IF k = 0 THEN 1 ELSE 10 * Pow10(k - 1)

\* a variant that compares with >=
GreaterOrEqual(r, k) == r.n >= k * Pow10(r.s)

\* r > k for a number r that is not NaN and a natural number k
GreaterThan(r, k) == r.n > k * Pow10(r.s)

\* the keys read by the fill functions
KeyPrice == <<"f", "a", "s", "i">>
KeyRooms == <<"o", "T", "a", "x", "i">>
KeyBedrooms == <<"s", "a", "Z", "i", "n", "e", "b", "e", "l", "i">>
KeyBathroomPoints ==
    <<"s", "c", ".", "w", "e", "r", "t", "i", "l", "e", "b", "i">>
KeyBathroomPointsSpaced ==
    <<"s", "c", " ", "w", "e", "r", "t", "i", "l", "e", "b", "i">>
KeyWetPointShort == <<"s", "v", ".", "w", "e", "r", "t", "i", "l", "i">>
KeyWetPoint ==
    <<"s", "v", "e", "l", "i", " ", "w", "e", "r", "t", "i", "l", "i">>
KeyStatus == <<"s", "t", "a", "t", "u", "s", "i">>
KeyCondition == <<"m", "d", "g", "o", "m", "a", "r", "e", "o", "b", "a">>
KeyStatusLatin == <<"s", "t", "a", "t", "u", "s">>

\* the texts the bathroom-related keys are recognized by
KeyPartPoint == <<"w", "e", "r", "t", "i", "l">>
KeyPartWet == <<"s", "v", "e", "l", "i">>
KeyPartSc == <<"s", "c">>

\* the option tokens
RoomsCapToken == <<"8", "+">>
BathroomCapToken == <<"5", "+">>
NoneToken == <<"a", "r", " ", "a", "q", "v", "s">>
NoWord == <<"a", "r", "a">>

RoomsCap == 8
BathroomCap == 5

\* fillPriceField: the text fillInputValue writes; Undefined when the
\* function returns for want of a price
PriceWritten(propertyDetails) ==
    LET price == Lookup(propertyDetails, KeyPrice)
    IN  IF price.kind = "undefined" THEN Undefined ELSE Str(ValueToString(price))

\* fillRoomsField: the option text searched; Undefined when the function
\* returns for want of a value
RoomText(propertyDetails) ==
    LET roomValue  == Lookup(propertyDetails, KeyRooms)
        roomNumber == ParseFloatOf(roomValue)
    IN  IF ~Truthy(roomValue) THEN Undefined
        ELSE IF roomNumber # NoNumber /\ GreaterThan(roomNumber, RoomsCap)
        THEN Str(RoomsCapToken)
        ELSE Str(Trim(ValueToString(roomValue)))

\* fillBedroomField: the option text searched
BedroomText(propertyDetails) ==
    LET bedroomValue == Lookup(propertyDetails, KeyBedrooms)
    IN  IF ~Truthy(bedroomValue) THEN Undefined
        ELSE Str(Trim(ValueToString(bedroomValue)))

\* the keys of additionalParameters taken for bathroom keys
IsBathroomKey(key) ==
    \/ Includes(key, KeyPartPoint)
    \/ Includes(key, KeyPartWet)
    \/ Includes(key, KeyPartSc)

\* obj[k1] || obj[k2] || obj[k3] || obj[k4] over the four bathroom keys
BathroomExactKeys(obj) ==
    OrElse(Lookup(obj, KeyBathroomPoints),
      OrElse(Lookup(obj, KeyBathroomPointsSpaced),
        OrElse(Lookup(obj, KeyWetPointShort), Lookup(obj, KeyWetPoint))))

\* fillBathroomField: the value found in the two objects
BathroomValue(propertyDetails, additionalParameters) ==
    LET exact        == BathroomExactKeys(additionalParameters)
        bathroomKeys == SelectSeq(additionalParameters,
                                  LAMBDA e : IsBathroomKey(e.key))
        fromParams   == IF ~Truthy(exact) /\ bathroomKeys # <<>>
                        THEN bathroomKeys[1].value ELSE exact
    IN  IF ~Truthy(fromParams) THEN BathroomExactKeys(propertyDetails)
        ELSE fromParams

\* fillBathroomField: the option text searched; Undefined when the function
\* returns with "No bathroom value found"
BathroomText(propertyDetails, additionalParameters) ==
    LET bathroomValue  == BathroomValue(propertyDetails, additionalParameters)
        lower          == ToLowerCase(ValueToString(bathroomValue))
        bathroomNumber == ParseFloatOf(bathroomValue)
    IN  IF bathroomValue.kind = "undefined" THEN Undefined
        ELSE IF \/ bathroomValue = Num(0)
                \/ bathroomValue = Str(<<"0">>)
                \/ Includes(lower, NoneToken)
                \/ Includes(lower, NoWord)
        THEN Str(NoneToken)
        ELSE IF bathroomNumber = NoNumber THEN Str(Trim(ValueToString(bathroomValue)))
        ELSE IF GreaterThan(bathroomNumber, BathroomCap) THEN Str(BathroomCapToken)
        ELSE Str(NumberToString(bathroomNumber))

\* the texts of the two mapping tables
StatusNewWord == <<"a", "x", "a", "l", "i">>
StatusUnderConstruction == <<"m", "S", "e", "n", "e", "b", "a", "r", "e">>
StatusOldWord == <<"Z", "v", "e", "l", "i">>
StatusNewBuilt ==
    <<"a", "x", "a", "l", "i", " ", "a", "S", "e", "n", "e", "b", "u", "l",
      "i">>
StatusOldBuilt ==
    <<"Z", "v", "e", "l", "i", " ", "a", "S", "e", "n", "e", "b", "u", "l",
      "i">>
CondToRenovate == <<"s", "a", "r", "e", "m", "o", "n", "t", "o">>
CondOngoing ==
    <<"m", "i", "m", "d", "i", "n", "a", "r", "e", " ", "r", "e", "m", "o",
      "n", "t", "i">>
CondWhiteFrame ==
    <<"T", "e", "T", "r", "i", " ", "k", "a", "r", "k", "a", "s", "i">>
CondBlackFrame ==
    <<"S", "a", "v", "i", " ", "k", "a", "r", "k", "a", "s", "i">>
CondGreenFrame ==
    <<"m", "w", "v", "a", "n", "e", " ", "k", "a", "r", "k", "a", "s", "i">>
CondNewlyRenovated ==
    <<"a", "x", "a", "l", "i", " ", "g", "a", "r", "e", "m", "o", "n", "t",
      "e", "b", "u", "l", "i">>
CondNewRenovation ==
    <<"a", "x", "a", "l", "i", " ", "r", "e", "m", "o", "n", "t", "i", "T">>
CondOldRenovated ==
    <<"Z", "v", "e", "l", "i", " ", "g", "a", "r", "e", "m", "o", "n", "t",
      "e", "b", "u", "l", "i">>
CondOldRenovation ==
    <<"Z", "v", "e", "l", "i", " ", "r", "e", "m", "o", "n", "t", "i", "T">>
CondWhitePlus ==
    <<"T", "e", "T", "r", "i", " ", "p", "l", "i", "u", "s", "i">>
CondRenovated ==
    <<"g", "a", "r", "e", "m", "o", "n", "t", "e", "b", "u", "l", "i">>
SourceGood == <<"k", "a", "r", "g", "i">>

\* the options of the status group and of the condition group
StatusTokens == {StatusNewBuilt, StatusUnderConstruction, StatusOldBuilt}
ConditionTokens ==
    {CondNewRenovation, CondOldRenovation, CondToRenovate, CondOngoing,
     CondRenovated, CondWhiteFrame, CondBlackFrame, CondGreenFrame}

\* mapMyhomeToSsStatus; Undefined stands for null
mapMyhomeToSsStatus(myhomeStatus) ==
    LET status == ToLowerCase(Trim(ValueToString(myhomeStatus)))
    IN  IF ~Truthy(myhomeStatus) THEN Undefined
        ELSE IF Includes(status, StatusNewWord) THEN Str(StatusNewBuilt)
        ELSE IF Includes(status, StatusUnderConstruction)
        THEN Str(StatusUnderConstruction)
        ELSE IF Includes(status, StatusOldWord) THEN Str(StatusOldBuilt)
        ELSE Str(StatusOldBuilt)

\* mapMyhomeConditionToSsCondition; Undefined stands for null
mapMyhomeConditionToSsCondition(myhomeCondition) ==
    LET condition == Trim(ValueToString(myhomeCondition))
    IN  IF ~Truthy(myhomeCondition) THEN Undefined
        ELSE IF condition = CondToRenovate THEN Str(CondToRenovate)
        ELSE IF condition = CondOngoing THEN Str(CondOngoing)
        ELSE IF condition = CondWhiteFrame THEN Str(CondWhiteFrame)
        ELSE IF condition = CondBlackFrame THEN Str(CondBlackFrame)
        ELSE IF condition = CondGreenFrame THEN Str(CondGreenFrame)
        ELSE IF Includes(condition, CondNewlyRenovated) THEN Str(CondNewRenovation)
        ELSE IF Includes(condition, CondOldRenovated) THEN Str(CondOldRenovation)
        ELSE IF Includes(condition, CondWhitePlus) THEN Str(CondWhiteFrame)
        ELSE IF Includes(condition, CondRenovated) THEN Str(CondRenovated)
        ELSE IF Includes(condition, CondToRenovate) THEN Str(CondToRenovate)
        ELSE IF Includes(condition, CondOngoing) THEN Str(CondOngoing)
        ELSE Undefined

\* fillStatusField: the value read from the two objects
StatusValue(propertyDetails, additionalParameters) ==
    OrElse(Lookup(propertyDetails, KeyStatus),
      OrElse(Lookup(propertyDetails, KeyStatusLatin),
        OrElse(Lookup(additionalParameters, KeyStatus),
          OrElse(Lookup(additionalParameters, KeyStatusLatin),
            OrElse(Lookup(propertyDetails, KeyCondition),
                   Lookup(additionalParameters, KeyCondition))))))

\* fillStatusField: the option text searched
StatusText(mapped) == IF ~Truthy(mapped) THEN Str(StatusOldBuilt) ELSE mapped

\* fillConditionField: the value read from the two objects
ConditionValue(propertyDetails, additionalParameters) ==
    OrElse(Lookup(propertyDetails, KeyCondition),
           Lookup(additionalParameters, KeyCondition))

\* fillConditionField: the option text searched
ConditionText(conditionValue, mapped) ==
    IF ~Truthy(mapped) THEN Str(Trim(ValueToString(conditionValue))) ELSE mapped

\* ---- the records of the model ----

Entry(key, v) == [key |-> key, value |-> v]

\* a count, as a number and as the text of one
CountValues ==
    {Num(k) : k \in 0..MaxCount}
        \cup {Str(IntToDigits(k)) : k \in 0..MaxCount}
        \cup {Str(<<" ", "9", " ">>), Str(<<>>)}

PriceValues ==
    { NumberValue([n |-> 1050005, s |-> 1]), Num(0), Str(<<>>),
      Str(<<"1","0","5",",","0","0","0",".","5","0","$">>),
      Str(<<"1","0","5","0","0","0",".","5">>) }

BathroomValues == CountValues \cup {Str(NoneToken), Str(NoWord)}

\* the keys a bathroom value is stored under in the model: two of the four
\* exact keys and one that is only bathroom-related
BathroomKeys == {KeyBathroomPoints, KeyWetPoint, KeyPartWet}

\* the objects with distinct keys of at most MaxEntries of the entries es
ObjectsOver(es) ==
    { o \in UNION { [1..k -> es] : k \in 0..MaxEntries } :
        \A i \in 1..Len(o) : \A j \in (i + 1)..Len(o) : o[i].key # o[j].key }

\* an object holding a bathroom value: one entry with any value, or
\* several entries with a zero among their values
BathroomObjects ==
    { <<Entry(k, v)>> : k \in BathroomKeys, v \in BathroomValues }
        \cup ObjectsOver({ Entry(k, v) : k \in BathroomKeys,
                                         v \in {Num(0), Str(<<"0">>), Num(3)} })

MappingSources ==
    StatusTokens \cup ConditionTokens
        \cup { StatusNewWord, StatusOldWord, CondNewlyRenovated, CondOldRenovated,
               CondWhitePlus, SourceGood, <<" ">>,
               <<" ">> \o CondToRenovate, SourceGood \o <<" ">> \o CondRenovated,
               CondToRenovate \o <<" ">> \o SourceGood }

FillFields == {"price", "rooms", "bedrooms", "bathrooms", "status", "condition"}

ValueIdle ==
    /\ fField = "none"
    /\ fProps = <<>>
    /\ fParams = <<>>
    /\ fLargestOption = 0
    /\ fPc = "idle"
    /\ fMapped = Undefined
    /\ fSearch = Undefined

\* the record handed to the fill function: any of the bounded records
ValueInit ==
    /\ fField \in FillFields
    /\ fProps \in
          CASE fField = "price" ->
                   {<<>>} \cup {<<Entry(KeyPrice, v)>> : v \in PriceValues}
            [] fField = "rooms" ->
                   {<<>>} \cup {<<Entry(KeyRooms, v)>> : v \in CountValues}
            [] fField = "bedrooms" ->
                   {<<>>} \cup {<<Entry(KeyBedrooms, v)>> : v \in CountValues}
            [] fField = "bathrooms" -> BathroomObjects
            [] fField = "status" ->
                   {<<>>} \cup {<<Entry(k, Str(t))>> :
                                   k \in {KeyStatus, KeyCondition}, t \in MappingSources}
            [] fField = "condition" ->
                   {<<>>} \cup {<<Entry(KeyCondition, Str(t))>> : t \in MappingSources}
    /\ fParams \in
          CASE fField = "bathrooms" -> BathroomObjects
            [] fField \in {"status", "condition"} ->
                   {<<>>, <<Entry(KeyCondition, Str(CondWhitePlus))>>}
            [] OTHER -> {<<>>}
    /\ fLargestOption \in IF fField = "bedrooms" THEN 1..(MaxCount - 1) ELSE {0}
    /\ fPc = "fill"
    /\ fMapped = Undefined
    /\ fSearch = Undefined

\* fillPriceField, its input found
PriceFieldValue ==
    /\ fPc = "fill" /\ fField = "price"
    /\ fSearch' = PriceWritten(fProps)
    /\ fPc' = "done"
    /\ UNCHANGED <<fField, fProps, fParams, fLargestOption, fMapped>>

\* fillRoomsField up to the search of the option
RoomsFieldValue ==
    /\ fPc = "fill" /\ fField = "rooms"
    /\ fSearch' = RoomText(fProps)
    /\ fPc' = "done"
    /\ UNCHANGED <<fField, fProps, fParams, fLargestOption, fMapped>>

\* fillBedroomField up to the search of the option
BedroomFieldValue ==
    /\ fPc = "fill" /\ fField = "bedrooms"
    /\ fSearch' = BedroomText(fProps)
    /\ fPc' = "done"
    /\ UNCHANGED <<fField, fProps, fParams, fLargestOption, fMapped>>

\* fillBathroomField up to the search of the option
BathroomFieldValue ==
    /\ fPc = "fill" /\ fField = "bathrooms"
    /\ fSearch' = BathroomText(fProps, fParams)
    /\ fPc' = "done"
    /\ UNCHANGED <<fField, fProps, fParams, fLargestOption, fMapped>>

\* fillStatusField up to the search of the option
StatusFieldValue ==
    /\ fPc = "fill" /\ fField = "status"
    /\ LET statusValue == StatusValue(fProps, fParams)
       IN  IF ~Truthy(statusValue)
           THEN UNCHANGED <<fMapped, fSearch>>
           ELSE /\ fMapped' = mapMyhomeToSsStatus(statusValue)
                /\ fSearch' = StatusText(mapMyhomeToSsStatus(statusValue))
    /\ fPc' = "done"
    /\ UNCHANGED <<fField, fProps, fParams, fLargestOption>>

\* fillConditionField up to the search of the option
ConditionFieldValue ==
    /\ fPc = "fill" /\ fField = "condition"
    /\ LET conditionValue == ConditionValue(fProps, fParams)
       IN  IF ~Truthy(conditionValue)
           THEN UNCHANGED <<fMapped, fSearch>>
           ELSE /\ fMapped' = mapMyhomeConditionToSsCondition(conditionValue)
                /\ fSearch' = ConditionText(conditionValue,
                                  mapMyhomeConditionToSsCondition(conditionValue))
    /\ fPc' = "done"
    /\ UNCHANGED <<fField, fProps, fParams, fLargestOption>>

-----------------------------------------------------------------------------
(* Extractor: the functions scrapeListingFromDom is made of.               *)

MaxPieces == 2          \* most pieces a page text is put together from
MaxNumLen == 4          \* longest enumerated numeric attribute text

\* the concatenation of the texts of a list
RECURSIVE Concat(_)
Concat(ts) == IF ts = <<>> THEN <<>> ELSE Head(ts) \o Concat(Tail(ts))

\* the sequences over S of length at most n
SeqsUpTo(S, n) == UNION {[1..k -> S] : k \in 0..n}

\* ---- detectDealType ----

dealTypesShortFirst == <<Kiravdeba, KiravdebaDghiurad, Giravdeba, Ikideba>>

\* const dealTypes = [...]: the phrases in the order they are tried
dealTypes == <<KiravdebaDghiurad, Kiravdeba, Giravdeba, Ikideba>>

\* for (const dealType of dealTypes) if (pageText.includes(dealType)) ...
RECURSIVE FirstIncluded(_, _)
FirstIncluded(phrases, pageText) ==
    IF phrases = <<>> THEN Undefined
    ELSE IF Includes(pageText, Head(phrases)) THEN Str(Head(phrases))
    ELSE FirstIncluded(Tail(phrases), pageText)

detectDealType(pageText) == FirstIncluded(dealTypes, pageText)

Bina == <<"b", "i", "n", "a">>

\* what a page text is put together from
PagePieces == {KiravdebaDghiurad, Kiravdeba, Giravdeba, Ikideba, Bina, <<" ">>}

\* document.body.textContent
PageTexts == {Concat(ps) : ps \in SeqsUpTo(PagePieces, MaxPieces)}

\* ---- collectPropertyDetails: a numeric field ----

DecimalCommaDropped(s) == RemoveAll(s, {","})

\* cleanedValue.replace(',', '.')
DecimalComma(s) == ReplaceFirst(s, ",", ".")

\* cleanedValue.slice(0, -1).trim() when the last character is no digit
DropUnit(s) ==
    IF s # <<>> /\ s[Len(s)] \notin Digits
    THEN Trim(SubSeq(s, 1, Len(s) - 1)) ELSE s

\* cleanedValue.replace(/[^\d.,]/g, '')
KeepNumeric(s) == SelectSeq(s, LAMBDA c : c \in Digits \cup {",", "."})

\* what propertyDetails[label] is set to for the non-empty text value
NumericDetail(value) ==
    LET numericValue == ParseFloat(DecimalComma(KeepNumeric(DropUnit(Trim(value)))))
    IN  IF numericValue # NoNumber THEN NumberValue(numericValue)
        ELSE Str(value)

\* valueElement.textContent.trim() of a numeric field; "m" is a unit letter
\* and "sq" the superscript two
NumericChars == {"1", "2", ",", ".", "m", " "}
NumericTexts ==
    {Trim(t) : t \in SeqsUpTo(NumericChars, MaxNumLen)}
        \cup {<<"1", "2", "0", "sq">>, <<"1", ",", "5", " ", "m", "sq">>}

\* ---- collectGalleryImages ----

MaxImgs == 3            \* most img nodes in the gallery container

\* an img node: its currentSrc and its src, data-src, data-lazy and
\* data-srcset attributes, <<>> when empty or missing
Img(currentSrc, src, dataSrc, dataLazy, dataSrcset) ==
    [currentSrc |-> currentSrc, src |-> src, dataSrc |-> dataSrc,
     dataLazy |-> dataLazy, dataSrcset |-> dataSrcset]

\* location.href, and what marks a URL that names its scheme and host
BaseUrl == <<"h", ":", "/">>

\* a text new URL(value, base) rejects
IsMalformedUrl(value) == Includes(value, <<"!">>)

\* toAbsoluteUrl: new URL(value, location.href).href, null for an empty or
\* a malformed value
toAbsoluteUrl(value) ==
    IF value = <<>> \/ IsMalformedUrl(value) THEN Undefined
    ELSE IF StartsWith(value, BaseUrl) THEN Str(value)
    ELSE IF Head(value) = "/" THEN Str(BaseUrl \o Tail(value))
    ELSE Str(BaseUrl \o value)

\* s.split(/\s+/)[0]
RECURSIVE FirstToken(_)
FirstToken(s) ==
    IF s = <<>> \/ Head(s) \in WhiteSpace THEN <<>>
    ELSE <<Head(s)>> \o FirstToken(Tail(s))

\* the first non-empty text of a list, <<>> when there is none
RECURSIVE FirstNonEmpty(_)
FirstNonEmpty(ts) ==
    IF ts = <<>> THEN <<>>
    ELSE IF Head(ts) # <<>> THEN Head(ts) ELSE FirstNonEmpty(Tail(ts))

\* img.src: the src attribute resolved against the page
ImgSrcProperty(img) ==
    IF Truthy(toAbsoluteUrl(img.src)) THEN toAbsoluteUrl(img.src).text
    ELSE <<>>

\* const rawSource = img.currentSrc || img.getAttribute("src") || ...
rawSource(img) ==
    FirstNonEmpty(<<img.currentSrc, img.src, img.dataSrc, img.dataLazy,
                    FirstToken(img.dataSrcset), ImgSrcProperty(img)>>)

NeverSeen(absolute, seen) == FALSE

\* seen.has(absolute)
SeenHas(absolute, seen) == absolute \in seen

\* the map over the img nodes with the seen set, then filter(Boolean)
RECURSIVE CollectFrom(_, _)
CollectFrom(imgs, seen) ==
    IF imgs = <<>> THEN <<>>
    ELSE LET absolute == toAbsoluteUrl(rawSource(Head(imgs)))
         IN  IF ~Truthy(absolute) \/ SeenHas(absolute.text, seen)
             THEN CollectFrom(Tail(imgs), seen)
             ELSE <<absolute.text>>
                      \o CollectFrom(Tail(imgs), seen \cup {absolute.text})

\* collectGalleryImages on the img nodes of the container (a missing
\* container gives the empty list, as a container without img nodes does)
collectGalleryImages(imgs) == CollectFrom(imgs, {})

\* the img nodes of the bounded galleries
ImgNodes ==
    { Img(<<"h", ":", "/", "a">>, <<"a">>, <<>>, <<>>, <<>>),
      Img(<<>>, <<"a">>, <<>>, <<>>, <<>>),
      Img(<<>>, <<>>, <<"/", "b">>, <<>>, <<>>),
      Img(<<>>, <<>>, <<>>, <<>>, <<"b", " ", "2", "x">>),
      Img(<<>>, <<>>, <<>>, <<"h", ":", "/", "c">>, <<>>),
      Img(<<>>, <<"!">>, <<>>, <<>>, <<>>),
      Img(<<>>, <<>>, <<>>, <<>>, <<>>) }

Galleries == SeqsUpTo(ImgNodes, MaxImgs)

\* ---- normalizeSelector, getFirstTextMatch, scrapeMappedAttribute ----

MaxSelectors == 2       \* most selectors in a fallback list

\* the characters of /[\w-]/ that the model's selectors use
ClassNameChars == {"a", "b", "-"} \cup Digits

\* /\\\[/.test(selector) || /\\\]/.test(selector)
HasEscapedBracket(selector) ==
    Includes(selector, <<"\\", "[">>) \/ Includes(selector, <<"\\", "]">>)

\* the longest prefix of s made of characters of cs
RECURSIVE TakeChars(_, _)
TakeChars(s, cs) ==
    IF s # <<>> /\ Head(s) \in cs
    THEN <<Head(s)>> \o TakeChars(Tail(s), cs) ELSE <<>>

\* `[class*="${p1}:${p2}"]`
ClassContains(p1, p2) ==
    <<"[", "c", "l", "a", "s", "s", "*", "=", "\"">> \o p1 \o <<":">> \o p2
        \o <<"\"", "]">>

\* selector.replace(/\.([\w-]+)\\:([\w-]+)/g, ...)
RECURSIVE ReplaceTailwind(_)
ReplaceTailwind(s) ==
    IF s = <<>> THEN <<>>
    ELSE LET p1 == TakeChars(Tail(s), ClassNameChars)
             r1 == SubSeq(s, 2 + Len(p1), Len(s))
             p2 == TakeChars(SubSeq(r1, 3, Len(r1)), ClassNameChars)
         IN  IF /\ Head(s) = "."
                /\ p1 # <<>>
                /\ StartsWith(r1, <<"\\", ":">>)
                /\ p2 # <<>>
             THEN ClassContains(p1, p2)
                      \o ReplaceTailwind(SubSeq(r1, 3 + Len(p2), Len(r1)))
             ELSE <<Head(s)>> \o ReplaceTailwind(Tail(s))

\* normalizeSelector: null for a selector with escaped brackets
normalizeSelector(selector) ==
    IF selector = <<>> THEN Str(selector)
    ELSE IF HasEscapedBracket(selector) THEN Undefined
    ELSE Str(ReplaceTailwind(selector))

\* the selectors of the bounded mappings and fallback lists: empty, a class,
\* an escaped Tailwind class, a class with escaped brackets, a syntax error
SelectorTexts ==
    { <<>>,
      <<".", "a">>,
      <<".", "a", "\\", ":", "b">>,
      <<".", "b", "\\", "[", "a", "\\", "]">>,
      <<"[">> }

\* the texts document.querySelector is called with
QueriedSelectors ==
    {normalizeSelector(t).text : t \in {u \in SelectorTexts :
                                           Truthy(normalizeSelector(u))}}

\* the selectors document.querySelector throws a SyntaxError for
InvalidSelectors == {<<"[">>}

\* what document.querySelector(selector) gives: a SyntaxError, null, or the
\* first matching element with its textContent
Throws == [kind |-> "throws", text |-> <<>>]
NoElement == [kind |-> "none", text |-> <<>>]
Element(textContent) == [kind |-> "element", text |-> textContent]

TextContents == {<<>>, <<" ">>, <<"t">>, <<" ", "u", " ">>}

Pages ==
    {page \in [QueriedSelectors ->
                   {Throws, NoElement} \cup {Element(t) : t \in TextContents}] :
        \A n \in QueriedSelectors :
            (page[n] = Throws) <=> (n \in InvalidSelectors)}

NoPage == [n \in QueriedSelectors |-> IF n \in InvalidSelectors THEN Throws ELSE NoElement]

HasTrimmedText(found) == found.kind = "element" /\ Trim(found.text) # <<>>

\* element?.textContent
HasTextContent(found) == found.kind = "element" /\ found.text # <<>>

\* getFirstTextMatch: the loop over the selectors
RECURSIVE getFirstTextMatch(_, _)
getFirstTextMatch(selectors, page) ==
    IF selectors = <<>> THEN Undefined
    ELSE LET selector == Head(selectors)
             normalizedSelector == normalizeSelector(selector)
         IN  IF selector = <<>> \/ ~Truthy(normalizedSelector)
             THEN getFirstTextMatch(Tail(selectors), page)
             ELSE IF HasTextContent(page[normalizedSelector.text])
             THEN Str(Trim(page[normalizedSelector.text].text))
             ELSE getFirstTextMatch(Tail(selectors), page)

\* scrapeMappedAttribute: mapped is mappings[attributeName], fallbackSelectors
\* is FALLBACK_SELECTORS[attributeName] (<<>> when the attribute has none)
scrapeMappedAttribute(mapped, fallbackSelectors, page) ==
    LET value == IF Truthy(mapped)
                 THEN getFirstTextMatch(<<mapped.text>>, page) ELSE Undefined
    IN  IF Truthy(value) THEN value
        ELSE getFirstTextMatch(fallbackSelectors, page)

\* mappings[attributeName]: missing, or one of the selectors
MappedSelectors == {Undefined} \cup {Str(t) : t \in SelectorTexts}

FallbackLists == SeqsUpTo(SelectorTexts, MaxSelectors)

\* ---- the address: transformAddress, then fillLocationForm's street value ----
\*
\* Georgian letters are written as in the rest of the model (one character
\* each, lower case and T J G S C Z W); the Latin letters of the model's
\* addresses are the capitals I, V and X of the Roman numerals.

GeorgianAlphabet ==
    {"a", "b", "g", "d", "e", "v", "z", "T", "i", "k", "l", "m", "n", "o",
     "p", "J", "r", "s", "t", "u", "f", "q", "G", "y", "S", "C", "c", "Z",
     "w", "W", "x", "j", "h"}

\* /[IVX]/i on the model's alphabet
RomanChars == {"I", "V", "X"}

\* /\w/ on the model's alphabet
WordChars == Digits \cup RomanChars

\* /[ა-ჰA-Za-z\-\/0-9]/
HouseNumberChars == GeorgianAlphabet \cup RomanChars \cup Digits \cup {"-", "/"}

MicroSuffix == <<"m", "/", "r">>
Mikroraioni == <<"m", "i", "k", "r", "o", "r", "a", "i", "o", "n", "i">>
Nutsubidzis == <<"n", "u", "c", "u", "b", "i", "Z", "i", "s">>
Pl == <<"p", "l">>
Kvart == <<"k", "v", "a", "r", "t">>
Kvartali == <<"k", "v", "a", "r", "t", "a", "l", "i">>
Plato == <<"p", "l", "a", "t", "o">>
Shes == <<"S", "e", "s">>
Shesakhvevi == <<"S", "e", "s", "a", "x", "v", "e", "v", "i">>
Kucha == <<"q", "u", "C", "a">>
Chikhi == <<"C", "i", "x", "i">>
Gamz == <<"g", "a", "m", "z">>

\* the text lit stands in s at position i
At(s, i, lit) ==
    /\ i >= 1
    /\ i + Len(lit) - 1 <= Len(s)
    /\ SubSeq(s, i, i + Len(lit) - 1) = lit

\* the position after the longest run of characters of cs that starts at i
RECURSIVE SkipChars(_, _, _)
SkipChars(s, i, cs) ==
    IF i <= Len(s) /\ s[i] \in cs THEN SkipChars(s, i + 1, cs) ELSE i

\* the position after an optional dot at i
SkipDot(s, i) == IF At(s, i, <<".">>) THEN i + 1 ELSE i

\* the position of the dash of /\s*-/ matched from i on, 0 when none
DashFrom(s, i) ==
    LET d == SkipChars(s, i, WhiteSpace)
    IN  IF At(s, d, <<"-">>) THEN d ELSE 0

\* the lengths of group 1 for which /^(.+?)\s*-\s*(.+?)\s*მ\/რ$/ matches
TransformSplits(address) ==
    {k \in 1..(Len(address) - 4) :
        /\ DashFrom(address, k + 1) # 0
        /\ DashFrom(address, k + 1) <= Len(address) - 4}

Smallest(S) == CHOOSE k \in S : \A j \in S : k <= j

\* transformAddress
transformAddress(address) ==
    IF /\ At(address, Len(address) - 2, MicroSuffix)
       /\ TransformSplits(address) # {}
    THEN LET k == Smallest(TransformSplits(address))
             d == DashFrom(address, k + 1)
             district == Trim(SubSeq(address, 1, k))
             microdistrict == Trim(SubSeq(address, d + 1, Len(address) - 3))
         IN  microdistrict \o <<" ">> \o Mikroraioni \o <<" ", "-", " ">>
                 \o district
    ELSE address

\* where /(\d+[ა-ჰA-Za-z\-\/0-9]*)\s*$/ matches in address: the leftmost
\* digit from which only house-number characters and then white space follow
HouseNumberStarts(address) ==
    {i \in 1..Len(address) :
        /\ address[i] \in Digits
        /\ SkipChars(address,
                     SkipChars(address, i, HouseNumberChars),
                     WhiteSpace) = Len(address) + 1}

\* fillLocationForm: streetAddressPart
StreetAddressPart(address) ==
    IF HouseNumberStarts(address) # {}
    THEN Trim(SubSeq(address, 1, Smallest(HouseNumberStarts(address)) - 1))
    ELSE address

\* fillLocationForm: explicitHouseNumber (<<>> for null)
ExplicitHouseNumber(address) ==
    IF HouseNumberStarts(address) # {}
    THEN LET i == Smallest(HouseNumberStarts(address))
         IN  SubSeq(address, i, SkipChars(address, i, HouseNumberChars) - 1)
    ELSE <<>>

\* the match of nutsubidzePlatoRegex: group 1, <<>> when it does not match
NutsubidzeMatch(s) ==
    LET b == SkipChars(s, 1 + Len(Nutsubidzis), WhiteSpace)
        d == SkipChars(s, SkipDot(s, b + Len(Pl)), WhiteSpace)
        e == SkipChars(s, d, RomanChars)
        f == SkipChars(s, e, WhiteSpace)
        h == SkipChars(s, SkipDot(s, f + Len(MicroSuffix)), WhiteSpace)
        i == SkipChars(s, h, RomanChars \cup Digits)
        j == SkipChars(s, i, WhiteSpace)
    IN  IF /\ At(s, 1, Nutsubidzis)
           /\ b > 1 + Len(Nutsubidzis)
           /\ At(s, b, Pl)
           /\ e > d
           /\ At(s, f, MicroSuffix)
           /\ i > h
           /\ At(s, j, Kvart)
           /\ SkipDot(s, j + Len(Kvart)) = Len(s) + 1
        THEN SubSeq(s, d, e - 1) ELSE <<>>

\* the rest of mkrKvRegex after group 1 matched from position p on: the
\* groups 2 and 3, << >> when it does not match
MkrKvRest(s, p) ==
    LET dash == DashFrom(s, p)
        q == SkipChars(s, dash + 1, WhiteSpace)
        r == SkipChars(s, q, RomanChars)
        t == SkipChars(s, r, WhiteSpace)
        u == SkipChars(s, t + Len(MicroSuffix), WhiteSpace)
        v == SkipChars(s, u, RomanChars \cup Digits)
        w == SkipChars(s, v, WhiteSpace)
    IN  IF /\ dash # 0
           /\ r > q
           /\ At(s, t, MicroSuffix)
           /\ v > u
           /\ At(s, w, Kvart)
           /\ SkipDot(s, w + Len(Kvart)) = Len(s) + 1
        THEN <<SubSeq(s, q, r - 1), SubSeq(s, u, v - 1)>> ELSE <<>>

\* the lengths of group 1 for which mkrKvRegex matches
MkrKvSplits(s) == {k \in 1..Len(s) : MkrKvRest(s, k + 1) # <<>>}

\* rawDistrict.replace(/\s+/, ' '): the first run of white space only
RECURSIVE CollapseFirstRun(_)
CollapseFirstRun(s) ==
    IF s = <<>> THEN <<>>
    ELSE IF Head(s) \in WhiteSpace
    THEN <<" ">> \o SubSeq(s, SkipChars(s, 1, WhiteSpace), Len(s))
    ELSE <<Head(s)>> \o CollapseFirstRun(Tail(s))

\* s.replace(/\s+/g, ' ')
RECURSIVE CollapseRuns(_)
CollapseRuns(s) ==
    IF s = <<>> THEN <<>>
    ELSE IF Head(s) \in WhiteSpace
    THEN <<" ">> \o CollapseRuns(SubSeq(s, SkipChars(s, 1, WhiteSpace), Len(s)))
    ELSE <<Head(s)>> \o CollapseRuns(Tail(s))

\* s.replace(/\bშეს\.\b/gi, ' შესახვევი '): a word boundary stands between
\* a Georgian letter or a dot and a character of \w only
RECURSIVE ExpandShes(_, _)
ExpandShes(s, i) ==
    IF i > Len(s) THEN <<>>
    ELSE IF /\ At(s, i, Shes \o <<".">>)
            /\ i > 1 /\ s[i - 1] \in WordChars
            /\ i + 4 <= Len(s) /\ s[i + 4] \in WordChars
    THEN <<" ">> \o Shesakhvevi \o <<" ">> \o ExpandShes(s, i + 4)
    ELSE <<s[i]>> \o ExpandShes(s, i + 1)

\* the type words of the lookahead (?=(ქ\.?|ქუჩა|ჩიხი|შესახვევი|შეს\.?)\b)
BranchTypeWords ==
    {<<"q">>, <<"q", ".">>, Kucha, Chikhi, Shesakhvevi, Shes, Shes \o <<".">>}

\* the lookahead at position i: a type word, then a word boundary
BranchTypeAhead(s, i) ==
    \E w \in BranchTypeWords :
        /\ At(s, i, w)
        /\ i + Len(w) <= Len(s)
        /\ s[i + Len(w)] \in WordChars

\* s.replace(/\s+[IVX]+\s+(?=...)/gi, ' ')
RECURSIVE StripBranchNumerals(_, _)
StripBranchNumerals(s, i) ==
    IF i > Len(s) THEN <<>>
    ELSE LET j == SkipChars(s, i, WhiteSpace)
             k == SkipChars(s, j, RomanChars)
             l == SkipChars(s, k, WhiteSpace)
         IN  IF j > i /\ k > j /\ l > k /\ BranchTypeAhead(s, l)
             THEN <<" ">> \o StripBranchNumerals(s, l)
             ELSE <<s[i]>> \o StripBranchNumerals(s, i + 1)

\* the words of /\s+(ქ\.?|ქუჩა|გამზ\.?|ჩიხი|ჩ\.|შესახვევი|შეს\.?)$/i
StreetTypeSuffixes ==
    {<<"q">>, <<"q", ".">>, Kucha, Gamz, Gamz \o <<".">>, Chikhi,
     <<"C", ".">>, Shesakhvevi, Shes, Shes \o <<".">>}

\* where that expression matches: white space, then a suffix up to the end
TypeSuffixStarts(s) ==
    {i \in 1..Len(s) :
        /\ s[i] \in WhiteSpace
        /\ SubSeq(s, SkipChars(s, i, WhiteSpace), Len(s)) \in StreetTypeSuffixes}

DropTypeSuffix(s) ==
    IF TypeSuffixStarts(s) # {}
    THEN SubSeq(s, 1, Smallest(TypeSuffixStarts(s)) - 1) ELSE s

\* s.replace(/[,\.\s]+$/g, '')
RECURSIVE DropTrailingMarks(_)
DropTrailingMarks(s) ==
    IF s # <<>> /\ s[Len(s)] \in WhiteSpace \cup {",", "."}
    THEN DropTrailingMarks(SubSeq(s, 1, Len(s) - 1)) ELSE s

\* normalizeStreetForSs: the generic street-name rules
GenericStreet(normalized) ==
    Trim(CollapseRuns(DropTrailingMarks(DropTypeSuffix(
        StripBranchNumerals(ExpandShes(normalized, 1), 1)))))

\* normalizeStreetForSs
normalizeStreetForSs(address) ==
    LET normalized == Trim(address)
    IN  IF address = <<>> THEN address
        ELSE IF NutsubidzeMatch(normalized) # <<>>
        THEN Nutsubidzis \o <<" ">> \o NutsubidzeMatch(normalized)
                 \o <<" ">> \o Plato
        ELSE IF MkrKvSplits(normalized) # {}
        THEN LET k == Smallest(MkrKvSplits(normalized))
                 groups == MkrKvRest(normalized, k + 1)
                 district == CollapseFirstRun(Trim(SubSeq(normalized, 1, k)))
             IN  groups[1] \o <<" ">> \o Mikroraioni \o <<",", " ">>
                     \o groups[2] \o <<" ">> \o Kvartali \o <<" ", "-", " ">>
                     \o district
        ELSE IF GenericStreet(normalized) # <<>> THEN GenericStreet(normalized)
        ELSE normalized

\* fillLocationForm: streetValue
StreetValue(address) == Trim(normalizeStreetForSs(StreetAddressPart(address)))

\* the addresses of the bounded listings: every district with every
\* microdistrict in the form "{district} - {microdistrict} m/r", and
\* addresses of other forms
Gldani == <<"g", "l", "d", "a", "n", "i">>
Varketili3 == <<"v", "a", "r", "k", "e", "T", "i", "l", "i", " ", "3">>
Digomi19 == <<"d", "i", "G", "o", "m", "i", " ", "1", "-", "9">>
Districts == {Gldani, Varketili3, Digomi19}
Microdistricts == {<<"a">>, <<"V">>, <<"I", "I", "I", " ", "a">>, <<"5">>}

MicrodistrictAddress(district, microdistrict) ==
    district \o <<" ", "-", " ">> \o microdistrict \o <<" ">> \o MicroSuffix

PlateauAddress ==
    <<"n", "u", "c", "u", "b", "i", "Z", "i", "s", " ", "p", "l", ".", " ",
      "I", "I", " ", "m", "/", "r", ".", " ", "I", " ", "k", "v", "a", "r",
      "t", ".">>
AspindzaStreet ==
    <<"a", "s", "p", "i", "n", "Z", "i", "s", " ", "q", ".", " ", "5">>
AsatianiLane ==
    <<"a", "s", "a", "T", "i", "a", "n", "i", " ", "l", ".", " ", "I", " ",
      "S", "e", "s", ".">>
TemkaQuarter ==
    <<"T", "e", "m", "q", "a", " ", "-", " ", "I", "I", "I", " ", "m", "/",
      "r", " ", "V", " ", "k", "v", "a", "r", "t", ".">>
AskaniDeadEnd ==
    <<"a", "s", "k", "a", "n", "i", "s", " ", "I", "I", " ", "C", "i", "x",
      "i">>

Addresses ==
    {MicrodistrictAddress(d, m) : d \in Districts, m \in Microdistricts}
        \cup {PlateauAddress, AspindzaStreet, AsatianiLane, TemkaQuarter,
              AskaniDeadEnd, <<>>}

\* ---- the state of the extractor functions ----

ExtractSteps ==
    {"detectDealType", "numericField", "collectGalleryImages",
     "scrapeMappedAttribute", "address"}

ExtractIdle ==
    /\ xStep = "idle"
    /\ xText = <<>>
    /\ xMapped = Undefined
    /\ xSelectors = <<>>
    /\ xPage = NoPage
    /\ xImgs = <<>>
    /\ xPc = "idle"
    /\ xResult = Undefined
    /\ xResultList = <<>>

\* the page the function runs on: any of the bounded inputs
ExtractInit ==
    /\ xStep \in ExtractSteps
    /\ xText \in
          CASE xStep = "detectDealType" -> PageTexts
            [] xStep = "numericField" -> NumericTexts
            [] xStep = "address" -> Addresses
            [] OTHER -> {<<>>}
    /\ xMapped \in
          IF xStep = "scrapeMappedAttribute" THEN MappedSelectors
          ELSE {Undefined}
    /\ xSelectors \in
          IF xStep = "scrapeMappedAttribute" THEN FallbackLists ELSE {<<>>}
    /\ xPage \in IF xStep = "scrapeMappedAttribute" THEN Pages ELSE {NoPage}
    /\ xImgs \in IF xStep = "collectGalleryImages" THEN Galleries ELSE {<<>>}
    /\ xPc = "scrape"
    /\ xResult = Undefined
    /\ xResultList = <<>>

\* const dealType = detectDealType();
DetectDealType ==
    /\ xPc = "scrape"
    /\ xStep = "detectDealType"
    /\ xResult' = detectDealType(xText)
    /\ xPc' = "done"
    /\ UNCHANGED <<xStep, xText, xMapped, xSelectors, xPage, xImgs,
                   xResultList>>

\* collectPropertyDetails on an item whose label is a numeric field: an
\* empty value stores nothing
CollectNumericField ==
    /\ xPc = "scrape"
    /\ xStep = "numericField"
    /\ xResult' = IF xText = <<>> THEN Undefined ELSE NumericDetail(xText)
    /\ xPc' = "done"
    /\ UNCHANGED <<xStep, xText, xMapped, xSelectors, xPage, xImgs,
                   xResultList>>

\* const galleryImages = collectGalleryImages();
CollectGalleryImages ==
    /\ xPc = "scrape"
    /\ xStep = "collectGalleryImages"
    /\ xResultList' = collectGalleryImages(xImgs)
    /\ xPc' = "done"
    /\ UNCHANGED <<xStep, xText, xMapped, xSelectors, xPage, xImgs, xResult>>

\* const address = scrapeMappedAttribute('address');
ScrapeMappedAttribute ==
    /\ xPc = "scrape"
    /\ xStep = "scrapeMappedAttribute"
    /\ xResult' = scrapeMappedAttribute(xMapped, xSelectors, xPage)
    /\ xPc' = "done"
    /\ UNCHANGED <<xStep, xText, xMapped, xSelectors, xPage, xImgs,
                   xResultList>>

\* if (address) propertyDetails[KeyAddress] = transformAddress(address);
TransformAddress ==
    /\ xPc = "scrape"
    /\ xStep = "address"
    /\ xResult' = IF xText = <<>> THEN Undefined
                  ELSE Str(transformAddress(xText))
    /\ xPc' = "scraped"
    /\ UNCHANGED <<xStep, xText, xMapped, xSelectors, xPage, xImgs,
                   xResultList>>

\* fillLocationForm(address) up to streetValue, on the scraped address;
\* it returns at once when there is none
LocationStreetValue ==
    /\ xPc = "scraped"
    /\ xStep = "address"
    /\ xResult' = IF Truthy(xResult) THEN Str(StreetValue(xResult.text))
                  ELSE Undefined
    /\ xResultList' = IF Truthy(xResult)
                      THEN <<ExplicitHouseNumber(xResult.text)>> ELSE <<>>
    /\ xPc' = "done"
    /\ UNCHANGED <<xStep, xText, xMapped, xSelectors, xPage, xImgs>>


-----------------------------------------------------------------------------
(* Background script: the listener of the fetchImages message.            *)

MaxUrls == 2            \* most URLs in a fetchImages request

\* every other subsystem at rest
CoreIdle == PriceIdle /\ MatchIdle /\ FillIdle /\ ValueIdle /\ ExtractIdle

\* the URLs of the bounded requests
ImageUrls == { <<"a", ".", "p", "?", "v">>, <<"b">> }

\* what happens to one URL: fetch rejects, the response is not OK,
\* response.blob() rejects, the FileReader ends with an error (onloadend
\* fires with reader.result null), or it ends with the data URL
FetchOutcomes == {"rejects", "notOk", "blobRejects", "readerFails", "loads"}

\* s.split(c)[0]
FirstPart(s, c) ==
    IF IndexOf(s, c) = 0 THEN s ELSE SubSeq(s, 1, IndexOf(s, c) - 1)

Webp == <<"w", "e", "b", "p">>

\* const extension = urlParts.length > 1 ? ... : 'webp'
ImageExtension(url) ==
    IF PartsLength(url, ".") > 1 THEN FirstPart(LastPart(url, "."), "?")
    ELSE Webp

\* the object the reader's promise resolves with: `image_${index + 1}` and
\* the extension, and the data read from the URL
ImageEntry(urls, index) ==
    [name |-> <<index, ImageExtension(urls[index])>>, data |-> urls[index]]

\* images.filter(Boolean): the entries of the resolved tasks from position
\* i on, in the order of request.urls
RECURSIVE ValidImages(_, _, _)
ValidImages(urls, task, i) ==
    IF i > Len(urls) THEN <<>>
    ELSE IF task[i] = "resolved"
    THEN <<ImageEntry(urls, i)>> \o ValidImages(urls, task, i + 1)
    ELSE ValidImages(urls, task, i + 1)

ImageIdle ==
    /\ imUrls = <<>>
    /\ imPlan = <<>>
    /\ imTask = <<>>
    /\ imResponses = <<>>
    /\ imPc = "idle"

\* a fetchImages message has arrived
ImageInit ==
    /\ imUrls \in SeqsUpTo(ImageUrls, MaxUrls)
    /\ imPlan \in [1..Len(imUrls) -> FetchOutcomes]
    /\ imTask = [i \in 1..Len(imUrls) |-> "idle"]
    /\ imResponses = <<>>
    /\ imPc = "message"

\* the listener: request.urls.map starts every fetch, Promise.all is set
\* up, and true is returned
FetchImagesListener ==
    /\ imPc = "message"
    /\ imTask' = [i \in 1..Len(imUrls) |-> "fetch"]
    /\ imPc' = "waiting"
    /\ UNCHANGED <<imUrls, imPlan, imResponses>>

\* await fetch(url): a rejection or a non-OK response is caught and the
\* task returns null
FetchSettles(i) ==
    /\ imTask[i] = "fetch"
    /\ imTask' = [imTask EXCEPT ![i] =
                     IF imPlan[i] \in {"rejects", "notOk"} THEN "null"
                     ELSE "blob"]
    /\ UNCHANGED <<imUrls, imPlan, imResponses, imPc>>

\* await response.blob(), then reader.readAsDataURL(blob)
BlobSettles(i) ==
    /\ imTask[i] = "blob"
    /\ imTask' = [imTask EXCEPT ![i] =
                     IF imPlan[i] = "blobRejects" THEN "null" ELSE "read"]
    /\ UNCHANGED <<imUrls, imPlan, imResponses, imPc>>

\* reader.onloadend: resolve({name, type, data}); when the read failed,
\* reader.result.split throws in the handler and the promise stays pending
ReaderLoadEnd(i) ==
    /\ imTask[i] = "read"
    /\ imTask' = [imTask EXCEPT ![i] =
                     IF imPlan[i] = "readerFails" THEN "pending"
                     ELSE "resolved"]
    /\ UNCHANGED <<imUrls, imPlan, imResponses, imPc>>

\* Promise.all(fetchPromises).then: every task has resolved or returned
\* null (no task rejects, so the catch is never entered)
PromiseAllThen ==
    /\ imPc = "waiting"
    /\ \A i \in 1..Len(imUrls) : imTask[i] \in {"resolved", "null"}
    /\ imResponses' = Append(imResponses,
                             [success |-> TRUE,
                              images |-> ValidImages(imUrls, imTask, 1)])
    /\ imPc' = "responded"
    /\ UNCHANGED <<imUrls, imPlan, imTask>>


-----------------------------------------------------------------------------
(* Popup: scrapeListingsInParallel.  The tab opened for urls[i] is tab i.  *)

MaxTabs == 2            \* most URLs handed to scrapeListingsInParallel

\* the same value for every URL
AllTabs(v) == [t \in 1..tCount |-> v]

\* the elements of a sequence
Range(s) == {s[i] : i \in 1..Len(s)}

TabIdle ==
    /\ tCount = 0
    /\ tPc = "idle"
    /\ tNext = 0
    /\ tMappings = "empty"
    /\ tOpened = <<>>
    /\ tLoad = <<>>
    /\ tListener = <<>>
    /\ tWait = <<>>
    /\ tTimer = <<>>
    /\ tMissed = {}
    /\ tScrape = <<>>
    /\ tResult = <<>>
    /\ tRemoved = {}
    /\ tReturned = <<>>

\* scrapeListingsInParallel(urls) has been called and awaits loadMappings
TabInit ==
    /\ tCount \in 0..MaxTabs
    /\ tPc = "mappings"
    /\ tNext = 1
    /\ tMappings = "empty"
    /\ tOpened = <<>>
    /\ tLoad = AllTabs("none")
    /\ tListener = AllTabs("none")
    /\ tWait = AllTabs("none")
    /\ tTimer = AllTabs("none")
    /\ tMissed = {}
    /\ tScrape = AllTabs("none")
    /\ tResult = AllTabs("none")
    /\ tRemoved = {}
    /\ tReturned = <<>>

TimeoutOnlyUnregisters(wait) == wait

\* the timer callback's resolve(): it settles a wait that is still pending
TimeoutResolves(wait) == IF wait = "pending" THEN "timeout" ELSE wait

CloseTabOnData(removed, t, r) == IF r = "data" THEN removed \cup {t} ELSE removed

\* the finally block: chrome.tabs.remove(tab.id) is called whatever the try
\* block returned
CloseTab(removed, t, r) == removed \cup {t}

\* the code after the opening loop, run in the same turn as the loop's last
\* step: a listener and a 15 s timer are set up for every opened tab, and
\* Promise.all over the load waits is awaited
WaitForTabs(opened) ==
    /\ tListener' = [t \in 1..tCount |->
                        IF t \in Range(opened) THEN "registered" ELSE "none"]
    /\ tWait' = [t \in 1..tCount |->
                    IF t \in Range(opened) THEN "pending" ELSE "none"]
    /\ tTimer' = [t \in 1..tCount |->
                     IF t \in Range(opened) THEN "set" ELSE "none"]
    /\ tPc' = "wait"

\* the opening loop goes on, or ends and the waits are set up
AfterOpening(next, opened) ==
    IF next > tCount THEN WaitForTabs(opened)
    ELSE /\ tPc' = "open"
         /\ UNCHANGED <<tListener, tWait, tTimer>>

\* await loadMappings() settles: a rejection is caught and mappings stays {}
MappingsSettle ==
    /\ tPc = "mappings"
    /\ tMappings' \in {"loaded", "empty"}
    /\ AfterOpening(1, <<>>)
    /\ UNCHANGED <<tCount, tNext, tOpened, tLoad, tMissed, tScrape, tResult,
                   tRemoved, tReturned>>

\* await chrome.tabs.create({url}) resolves: the tab is pushed and starts
\* loading
CreateTab ==
    /\ tPc = "open"
    /\ tOpened' = Append(tOpened, tNext)
    /\ tLoad' = [tLoad EXCEPT ![tNext] = "loading"]
    /\ tNext' = tNext + 1
    /\ AfterOpening(tNext + 1, Append(tOpened, tNext))
    /\ UNCHANGED <<tCount, tMappings, tMissed, tScrape, tResult, tRemoved,
                   tReturned>>

\* await chrome.tabs.create({url}) rejects: caught, the loop goes on
CreateTabFails ==
    /\ tPc = "open"
    /\ tNext' = tNext + 1
    /\ AfterOpening(tNext + 1, tOpened)
    /\ UNCHANGED <<tCount, tMappings, tOpened, tLoad, tMissed, tScrape,
                   tResult, tRemoved, tReturned>>

\* the browser reports status 'complete' for tab t: its listener, when one
\* is registered, removes itself and resolves the wait
TabCompletes(t) ==
    /\ tLoad[t] = "loading"
    /\ tLoad' = [tLoad EXCEPT ![t] = "complete"]
    /\ IF tListener[t] = "registered"
       THEN /\ tListener' = [tListener EXCEPT ![t] = "removed"]
            /\ tWait' = [tWait EXCEPT ![t] = "event"]
            /\ UNCHANGED tMissed
       ELSE /\ tMissed' = IF tListener[t] = "none" THEN tMissed \cup {t}
                          ELSE tMissed
            /\ UNCHANGED <<tListener, tWait>>
    /\ UNCHANGED <<tCount, tPc, tNext, tMappings, tOpened, tTimer, tScrape,
                   tResult, tRemoved, tReturned>>

\* the 15 s timer of tab t fires: removeListener(listener); resolve()
LoadTimeout(t) ==
    /\ tTimer[t] = "set"
    /\ tTimer' = [tTimer EXCEPT ![t] = "fired"]
    /\ tListener' = [tListener EXCEPT ![t] = "removed"]
    /\ tWait' = [tWait EXCEPT ![t] = TimeoutResolves(tWait[t])]
    /\ UNCHANGED <<tCount, tPc, tNext, tMappings, tOpened, tLoad, tMissed,
                   tScrape, tResult, tRemoved, tReturned>>

\* Promise.all over the load waits resolves; the 2 s timer is awaited
AllWaitsResolved ==
    /\ tPc = "wait"
    /\ \A t \in Range(tOpened) : tWait[t] \in {"event", "timeout"}
    /\ tPc' = "settle"
    /\ UNCHANGED <<tCount, tNext, tMappings, tOpened, tLoad, tListener, tWait,
                   tTimer, tMissed, tScrape, tResult, tRemoved, tReturned>>

\* the 2 s timer fires: executeScrapeOnTab is called for every opened tab
StartScraping ==
    /\ tPc = "settle"
    /\ tScrape' = [t \in 1..tCount |->
                      IF t \in Range(tOpened) THEN "running" ELSE "none"]
    /\ tPc' = "scrape"
    /\ UNCHANGED <<tCount, tNext, tMappings, tOpened, tLoad, tListener, tWait,
                   tTimer, tMissed, tResult, tRemoved, tReturned>>

\* executeScrapeOnTab(tab.id, mappings) settles with data, with no result,
\* or with null after executeScript rejected; the finally block calls
\* chrome.tabs.remove
ScrapeSettles(t) ==
    /\ tPc = "scrape"
    /\ tScrape[t] = "running"
    /\ \E r \in {"data", "empty", "threw"} :
          /\ tResult' = [tResult EXCEPT ![t] = r]
          /\ tRemoved' = CloseTab(tRemoved, t, r)
    /\ tScrape' = [tScrape EXCEPT ![t] = "closing"]
    /\ UNCHANGED <<tCount, tPc, tNext, tMappings, tOpened, tLoad, tListener,
                   tWait, tTimer, tMissed, tReturned>>

\* await chrome.tabs.remove(tab.id) settles (a rejection is caught): the
\* task returns its result, or null
RemoveSettles(t) ==
    /\ tScrape[t] = "closing"
    /\ tScrape' = [tScrape EXCEPT ![t] = "done"]
    /\ UNCHANGED <<tCount, tPc, tNext, tMappings, tOpened, tLoad, tListener,
                   tWait, tTimer, tMissed, tResult, tRemoved, tReturned>>

\* results.filter(result => result !== null)
ScrapedOf(opened, result) == SelectSeq(opened, LAMBDA t : result[t] = "data")

\* Promise.all(scrapePromises) resolves; return scrapedListings
ParallelReturns ==
    /\ tPc = "scrape"
    /\ \A t \in Range(tOpened) : tScrape[t] = "done"
    /\ tReturned' = ScrapedOf(tOpened, tResult)
    /\ tPc' = "returned"
    /\ UNCHANGED <<tCount, tNext, tMappings, tOpened, tLoad, tListener, tWait,
                   tTimer, tMissed, tScrape, tResult, tRemoved>>


-----------------------------------------------------------------------------
(* Storage: listingStorage.js over chrome.storage.local.  A value that may *)
(* be missing is a set: {} for a missing key or null, {v} for the value v. *)

MaxClock == 2           \* Date.now() runs over 0..MaxClock
MaxBatch == 1           \* longest array handed to saveSearchResults

STORAGE_KEYS == {"latestListing", "latestScrapeAt", "searchResults",
                 "searchResultsScrapedAt"}

Listings == {"L1", "L2"}
NoListing == "null"

\* the arguments of saveLatestListing: a listing, or nothing
ListingArgs == Listings \cup {NoListing}

\* the arguments of saveSearchResults: arrays of listings, and a listing
\* that is not an array
BatchArgs ==
    {[isArray |-> TRUE, items |-> b] : b \in SeqsUpTo(Listings, MaxBatch)}
        \cup {[isArray |-> FALSE, items |-> <<l>>] : l \in Listings}

StorageReplace(area, items) ==
    [k \in STORAGE_KEYS |-> IF k \in DOMAIN items THEN {items[k]} ELSE {}]

\* chrome.storage.local.set(items): the keys of items are written, the
\* other keys stay
StorageSet(area, items) ==
    [k \in STORAGE_KEYS |-> IF k \in DOMAIN items THEN {items[k]} ELSE area[k]]

\* getLatestListing's return value
getLatestListing(area) ==
    [listing |-> area["latestListing"], scrapedAt |-> area["latestScrapeAt"]]

\* getSearchResults' return value: a missing batch reads as []
getSearchResults(area) ==
    [listings |-> IF area["searchResults"] = {} THEN <<>>
                  ELSE CHOOSE b \in area["searchResults"] : TRUE,
     scrapedAt |-> area["searchResultsScrapedAt"]]

\* nothing stored, nothing called
StoreInit ==
    /\ stStore = [k \in STORAGE_KEYS |-> {}]
    /\ stClock = 0
    /\ stLastOp = "none"
    /\ stThrown = FALSE
    /\ stGotLatest = {}
    /\ stGotResults = {}
    /\ stSavedListing = [listing |-> {}, scrapedAt |-> {}]
    /\ stSavedResults = [listings |-> <<>>, scrapedAt |-> {}]

\* time passes
ClockTick ==
    /\ stClock < MaxClock
    /\ stClock' = stClock + 1
    /\ UNCHANGED <<stStore, stLastOp, stThrown, stGotLatest, stGotResults,
                   stSavedListing, stSavedResults>>

\* saveLatestListing(listing)
SaveLatestListing(payload) ==
    /\ stLastOp' = "saveLatestListing"
    /\ IF payload = NoListing
       THEN /\ stThrown' = TRUE
            /\ UNCHANGED <<stStore, stSavedListing>>
       ELSE /\ stThrown' = FALSE
            /\ stStore' = StorageSet(stStore, [latestListing |-> payload,
                                               latestScrapeAt |-> stClock])
            /\ stSavedListing' = [listing |-> {payload}, scrapedAt |-> {stClock}]
    /\ UNCHANGED <<stClock, stGotLatest, stGotResults, stSavedResults>>

\* saveSearchResults(listings)
SaveSearchResults(listings) ==
    /\ stLastOp' = "saveSearchResults"
    /\ IF ~listings.isArray
       THEN /\ stThrown' = TRUE
            /\ UNCHANGED <<stStore, stSavedResults>>
       ELSE /\ stThrown' = FALSE
            /\ stStore' = StorageSet(stStore,
                              [searchResults |-> listings.items,
                               searchResultsScrapedAt |-> stClock])
            /\ stSavedResults' = [listings |-> listings.items,
                                  scrapedAt |-> {stClock}]
    /\ UNCHANGED <<stClock, stGotLatest, stGotResults, stSavedListing>>

\* getLatestListing()
GetLatestListing ==
    /\ stLastOp' = "getLatestListing"
    /\ stThrown' = FALSE
    /\ stGotLatest' = {getLatestListing(stStore)}
    /\ UNCHANGED <<stStore, stClock, stGotResults, stSavedListing, stSavedResults>>

\* getSearchResults()
GetSearchResults ==
    /\ stLastOp' = "getSearchResults"
    /\ stThrown' = FALSE
    /\ stGotResults' = {getSearchResults(stStore)}
    /\ UNCHANGED <<stStore, stClock, stGotLatest, stSavedListing, stSavedResults>>


-----------------------------------------------------------------------------
(* Mappings: mappingLoader.js, and executeScrapeOnActiveTab calling it.    *)

MaxCsvLen == 4          \* longest mappings.csv text

\* the characters of the mappings.csv texts tried
CsvChars == {"a", ",", "\n", "("}

CsvTexts == SeqsUpTo(CsvChars, MaxCsvLen)

\* how fetch(chrome.runtime.getURL('mappings.csv')) settles: it rejects
\* (the file is missing), or resolves with a status that is not OK or OK
MappingFetches == {"rejects", "notOk", "ok"}

\* s.split('\n')
RECURSIVE SplitLines(_)
SplitLines(s) ==
    IF \A i \in 1..Len(s) : s[i] # "\n" THEN <<s>>
    ELSE LET n == CHOOSE i \in 1..Len(s) :
                      s[i] = "\n" /\ \A j \in 1..(i - 1) : s[j] # "\n"
         IN <<SubSeq(s, 1, n - 1)>> \o SplitLines(SubSeq(s, n + 1, Len(s)))

\* csvText.trim().split('\n').filter(line => line.trim())
CsvLines(csvText) == SelectSeq(SplitLines(Trim(csvText)), LAMBDA l : Trim(l) # <<>>)

openBrackets == {"(", "[", "{"}
closeBrackets == {")", "]", "}"}

\* parseCSVLine from character i on, with the field, the quote state and
\* the bracket depth reached so far: the fields from there
RECURSIVE ParseCSVFrom(_, _, _, _, _)
ParseCSVFrom(line, i, currentField, insideQuotes, bracketDepth) ==
    IF i > Len(line) THEN <<Trim(currentField)>>
    ELSE LET char == line[i]
             isEscaped == i > 1 /\ line[i - 1] = "\\"
         IN IF char = "\"" /\ ~isEscaped
            THEN IF insideQuotes /\ i < Len(line) /\ line[i + 1] = "\""
                 THEN ParseCSVFrom(line, i + 2, Append(currentField, "\""),
                                   insideQuotes, bracketDepth)
                 ELSE ParseCSVFrom(line, i + 1, Append(currentField, char),
                                   ~insideQuotes, bracketDepth)
            ELSE IF char = "," /\ ~insideQuotes /\ bracketDepth = 0 /\ ~isEscaped
            THEN <<Trim(currentField)>>
                     \o ParseCSVFrom(line, i + 1, <<>>, insideQuotes, bracketDepth)
            ELSE ParseCSVFrom(line, i + 1, Append(currentField, char), insideQuotes,
                     IF insideQuotes \/ isEscaped THEN bracketDepth
                     ELSE IF char \in openBrackets THEN bracketDepth + 1
                     ELSE IF char \in closeBrackets /\ bracketDepth > 0
                          THEN bracketDepth - 1
                     ELSE bracketDepth)

parseCSVLine(line) == ParseCSVFrom(line, 1, <<>>, FALSE, 0)

\* the empty object
NoMappings == [h \in {} |-> <<>>]

\* the object built from the header row and the selector row: a header with
\* a selector maps to the selector of its last column
MappingsOf(headers, selectors) ==
    LET columns == {i \in 1..Len(headers) :
                       /\ headers[i] # <<>>
                       /\ i <= Len(selectors)
                       /\ selectors[i] # <<>>}
    IN [h \in {headers[i] : i \in columns} |->
           selectors[CHOOSE i \in columns :
                         /\ headers[i] = h
                         /\ \A j \in columns : headers[j] = h => j <= i]]

\* whether mappings.csv has the two lines loadMappings asks for
HasTwoLines(csvText) == Len(CsvLines(csvText)) >= 2

LoaderIdle ==
    /\ ldFetch = "ok"
    /\ ldText = <<>>
    /\ ldPc = "idle"
    /\ ldMappings = NoMappings
    /\ ldCaller = "idle"
    /\ ldUsed = NoMappings

\* executeScrapeOnActiveTab has called loadMappings, which awaits fetch
LoaderInit ==
    /\ ldFetch \in MappingFetches
    /\ ldText \in CsvTexts
    /\ ldPc = "fetching"
    /\ ldMappings = NoMappings
    /\ ldCaller = "awaiting"
    /\ ldUsed = NoMappings

\* await fetch(...) settles: a rejection and a status that is not OK both
\* end in the catch block, which throws the error again
MappingsFetchSettles ==
    /\ ldPc = "fetching"
    /\ ldPc' = IF ldFetch = "ok" THEN "parsing" ELSE "thrown"
    /\ UNCHANGED <<ldFetch, ldText, ldMappings, ldCaller, ldUsed>>

\* await response.text() resolves: the rows are parsed and the object is
\* returned, or the error for a text of fewer than two lines is thrown,
\* caught and thrown again
ParseMappings ==
    /\ ldPc = "parsing"
    /\ IF HasTwoLines(ldText)
       THEN /\ ldMappings' = MappingsOf(parseCSVLine(CsvLines(ldText)[1]),
                                        parseCSVLine(CsvLines(ldText)[2]))
            /\ ldPc' = "returned"
       ELSE /\ ldPc' = "thrown"
            /\ UNCHANGED ldMappings
    /\ UNCHANGED <<ldFetch, ldText, ldCaller, ldUsed>>

\* executeScrapeOnActiveTab goes on: mappings is what loadMappings returned,
\* or still {} after the catch block
CallerInjects ==
    /\ ldCaller = "awaiting"
    /\ ldPc \in {"returned", "thrown"}
    /\ ldUsed' = IF ldPc = "returned" THEN ldMappings ELSE NoMappings
    /\ ldCaller' = "injecting"
    /\ UNCHANGED <<ldFetch, ldText, ldPc, ldMappings>>


-----------------------------------------------------------------------------
(* Popup: executeSearchOnActiveTab.  Searches run one after another on the *)
(* same page; a list of URLs carries the number of the search whose script *)
(* put it into window.__listingUrlsToScrape.                               *)

MaxSearches == 3        \* searches run on the page

\* what collectListingUrls can come back with: lists of URLs, or an exception
Collected == {"u1", "u2", "none", "throws"}

\* which button the injected script finds: the one reading "search", the
\* fallback (aria-label or submit), or neither
SearchButtons == {"search", "fallback", "none"}

NoUrls == [urls |-> "none", by |-> 0]

\* the variable was never written
Unset == [urls |-> "unset", by |-> 0]

\* window.__listingUrlsToScrape || []
ReadUrls(w) == IF w.urls = "unset" THEN NoUrls ELSE w

\* a page no search has run on, and the popup at rest
SearchInit ==
    /\ seSearch = 0
    /\ seButton = "none"
    /\ sePage = "idle"
    /\ seObserver = 0
    /\ seWindow = Unset
    /\ sePopup = "idle"
    /\ seRead = NoUrls
    /\ seSaved = NoUrls

\* handleSearchSubmitted: the script is injected, which sets its 600 ms
\* timer, and the popup sets its 3000 ms timer
SearchSubmitted ==
    /\ seSearch < MaxSearches
    /\ sePopup \in {"idle", "done"}
    /\ sePage \in {"idle", "done"}
    /\ seSearch' = seSearch + 1
    /\ seButton' \in SearchButtons
    /\ sePage' = "injected"
    /\ sePopup' = "waiting"
    /\ UNCHANGED <<seObserver, seWindow, seRead, seSaved>>

\* the 600 ms timer: the search button, or else the fallback button, is
\* clicked and a 1500 ms timer set; with neither the script is over
ClickSearchButton ==
    /\ sePage = "injected"
    /\ sePage' = IF seButton = "none" THEN "done" ELSE "clicked"
    /\ UNCHANGED <<seSearch, seButton, seObserver, seWindow, sePopup, seRead,
                   seSaved>>

\* the 1500 ms timer: VIP listings are filtered, the 500 ms timer is set
\* and, after the search button, a MutationObserver is connected
FilterResults ==
    /\ sePage = "clicked"
    /\ sePage' = "filtered"
    /\ seObserver' = IF seButton = "search" THEN seSearch ELSE seObserver
    /\ UNCHANGED <<seSearch, seButton, seWindow, sePopup, seRead, seSaved>>

\* the 500 ms timer: the URLs collected are stored, [] when there are none
\* or collectListingUrls threw
CollectUrls ==
    /\ sePage = "filtered"
    /\ \E c \in Collected :
          seWindow' = IF c \in {"none", "throws"} THEN NoUrls
                      ELSE [urls |-> c, by |-> seSearch]
    /\ sePage' = "done"
    /\ UNCHANGED <<seSearch, seButton, seObserver, sePopup, seRead, seSaved>>

\* the observer's 300 ms timer: URLs collected again replace the list, an
\* empty collection or an exception leaves it
ObserverCollects ==
    /\ seObserver # 0
    /\ \E c \in Collected :
          seWindow' = IF c \in {"none", "throws"} THEN seWindow
                      ELSE [urls |-> c, by |-> seObserver]
    /\ UNCHANGED <<seSearch, seButton, sePage, seObserver, sePopup, seRead,
                   seSaved>>

\* the 10 s timer: observer.disconnect()
ObserverDisconnects ==
    /\ seObserver # 0
    /\ seObserver' = 0
    /\ UNCHANGED <<seSearch, seButton, sePage, seWindow, sePopup, seRead,
                   seSaved>>

\* the popup's 3000 ms timer: the variable is read from the page
PopupReadsUrls ==
    /\ sePopup = "waiting"
    /\ seRead' = ReadUrls(seWindow)
    /\ sePopup' = "read"
    /\ UNCHANGED <<seSearch, seButton, sePage, seObserver, seWindow, seSaved>>

\* URLs that were read are scraped and, when a scrape gave a listing, saved
\* as the search's results
PopupScrapes ==
    /\ sePopup = "read"
    /\ \/ seRead.urls # "none" /\ seSaved' = seRead
       \/ UNCHANGED seSaved
    /\ sePopup' = "done"
    /\ UNCHANGED <<seSearch, seButton, sePage, seObserver, seWindow, seRead>>

ShellIdle == ImageIdle /\ TabIdle /\ StoreInit /\ LoaderIdle /\ SearchInit

-----------------------------------------------------------------------------
(* fillLocationForm's street typing on its own.                            *)

MaxStreetLen == 4       \* longest street value typed

\* the street values typed: every text of the characters of the options
StreetInputs == SeqsUpTo({"k", "v", ".", " "}, MaxStreetLen) \ {<<>>}

\* fillLocationForm has found the street input and set the 500 ms timer
StreetInit ==
    /\ listing = [present |-> FALSE, dealType |-> <<>>]
    /\ popupPc = "idle"
    /\ popupStatus = "Ready."
    /\ timers = SetTimeout(<<>>, "streetFocus", StreetFocusDelay)
    /\ retryCount = [s \in RetrySteps |-> 0]
    /\ ticks = [s \in RetrySteps |-> 0]
    /\ failures = [s \in RetrySteps |-> 0]
    /\ invoked = <<>>
    /\ clicked = <<>>
    /\ thrown = <<>>
    /\ dealTypeVar = <<>>
    /\ priceAttempts = 0
    /\ priceWrites = 0
    /\ priceLog = <<>>
    /\ \E streetValue \in StreetInputs :
          street = [pc |-> "scheduled", value |-> streetValue, current |-> <<>>,
                    tried |-> FALSE, events |-> <<>>]
    /\ upload = "idle"

-----------------------------------------------------------------------------
(* The specifications.                                                     *)

Init == PriceIdle /\ MatchIdle /\ FillIdle /\ ValueIdle /\ ExtractIdle
        /\ ShellIdle

Next ==
    \/ AutofillClicked /\ UNCHANGED <<priceVars, matchVars, valueVars, extractVars, shellVars>>
    \/ AutofillResolved /\ UNCHANGED <<priceVars, matchVars, valueVars, extractVars, shellVars>>
    \/ CategoryRetryTick /\ UNCHANGED <<priceVars, matchVars, valueVars, extractVars, shellVars>>
    \/ SelectPropertyType /\ UNCHANGED <<priceVars, matchVars, valueVars, extractVars, shellVars>>
    \/ PropertyTypeRetryTick /\ UNCHANGED <<priceVars, matchVars, valueVars, extractVars, shellVars>>
    \/ SelectDealType /\ UNCHANGED <<priceVars, matchVars, valueVars, extractVars, shellVars>>
    \/ DealTypeRetryTick /\ UNCHANGED <<priceVars, matchVars, valueVars, extractVars, shellVars>>
    \/ DealTypeSettled /\ UNCHANGED <<priceVars, matchVars, valueVars, extractVars, shellVars>>
    \/ AltDealTypeSettled /\ UNCHANGED <<priceVars, matchVars, valueVars, extractVars, shellVars>>
    \/ UploadResponse /\ UNCHANGED <<priceVars, matchVars, valueVars, extractVars, shellVars>>
    \/ UploadCheck /\ UNCHANGED <<priceVars, matchVars, valueVars, extractVars, shellVars>>
    \/ FillLocation /\ UNCHANGED <<priceVars, matchVars, valueVars, extractVars, shellVars>>
    \/ StreetFocus /\ UNCHANGED <<priceVars, matchVars, valueVars, extractVars, shellVars>>
    \/ StreetClear /\ UNCHANGED <<priceVars, matchVars, valueVars, extractVars, shellVars>>
    \/ TypeStreet /\ UNCHANGED <<priceVars, matchVars, valueVars, extractVars, shellVars>>
    \/ StreetSelect /\ UNCHANGED <<priceVars, matchVars, valueVars, extractVars, shellVars>>
    \/ HouseNumber /\ UNCHANGED <<priceVars, matchVars, valueVars, extractVars, shellVars>>
    \/ FillRemainingFields /\ UNCHANGED <<priceVars, matchVars, valueVars, extractVars, shellVars>>
    \/ PricePoll /\ UNCHANGED <<priceVars, matchVars, valueVars, extractVars, shellVars>>
    \/ FillBedroomField /\ UNCHANGED <<priceVars, matchVars, valueVars, extractVars, shellVars>>
    \/ FillAreaField /\ UNCHANGED <<priceVars, matchVars, valueVars, extractVars, shellVars>>
    \/ FillFloorField /\ UNCHANGED <<priceVars, matchVars, valueVars, extractVars, shellVars>>
    \/ FillTotalFloorField /\ UNCHANGED <<priceVars, matchVars, valueVars, extractVars, shellVars>>
    \/ FillProjectTypeField /\ UNCHANGED <<priceVars, matchVars, valueVars, extractVars, shellVars>>
    \/ FillBathroomFieldWithRetry /\ UNCHANGED <<priceVars, matchVars, valueVars, extractVars, shellVars>>
    \/ BathroomRetryTick /\ UNCHANGED <<priceVars, matchVars, valueVars, extractVars, shellVars>>
    \/ FillStatusField /\ UNCHANGED <<priceVars, matchVars, valueVars, extractVars, shellVars>>
    \/ FillConditionField /\ UNCHANGED <<priceVars, matchVars, valueVars, extractVars, shellVars>>
    \/ FillOtherInformation /\ UNCHANGED <<priceVars, matchVars, valueVars, extractVars, shellVars>>
    \/ FillShortDescription /\ UNCHANGED <<priceVars, matchVars, valueVars, extractVars, shellVars>>
    \/ FillDescriptionExplicit /\ UNCHANGED <<priceVars, matchVars, valueVars, extractVars, shellVars>>

\* the autofill sequence
Spec == Init /\ [][Next]_vars

\* the price parser on bounded price texts
PriceSpecInit ==
    PriceInit /\ MatchIdle /\ FillIdle /\ ValueIdle /\ ExtractIdle
        /\ ShellIdle
PriceNext == ScrapePrice /\ UNCHANGED <<matchVars, fillVars, valueVars, extractVars, shellVars>>
SpecPrice == PriceSpecInit /\ [][PriceNext]_vars

\* the option matching on bounded option lists
MatchSpecInit ==
    PriceIdle /\ MatchInit /\ FillIdle /\ ValueIdle /\ ExtractIdle
        /\ ShellIdle
MatchNext ==
    \/ FillOptionGroup /\ UNCHANGED <<priceVars, fillVars, valueVars, extractVars, shellVars>>
    \/ SelectStreetOption /\ UNCHANGED <<priceVars, fillVars, valueVars, extractVars, shellVars>>
SpecMatch == MatchSpecInit /\ [][MatchNext]_vars

\* the values the fill functions derive from bounded records
ValueSpecInit ==
    PriceIdle /\ MatchIdle /\ FillIdle /\ ValueInit /\ ExtractIdle
        /\ ShellIdle
ValueNext ==
    \/ PriceFieldValue /\ UNCHANGED <<priceVars, matchVars, fillVars, extractVars, shellVars>>
    \/ RoomsFieldValue /\ UNCHANGED <<priceVars, matchVars, fillVars, extractVars, shellVars>>
    \/ BedroomFieldValue /\ UNCHANGED <<priceVars, matchVars, fillVars, extractVars, shellVars>>
    \/ BathroomFieldValue /\ UNCHANGED <<priceVars, matchVars, fillVars, extractVars, shellVars>>
    \/ StatusFieldValue /\ UNCHANGED <<priceVars, matchVars, fillVars, extractVars, shellVars>>
    \/ ConditionFieldValue /\ UNCHANGED <<priceVars, matchVars, fillVars, extractVars, shellVars>>
SpecValue == ValueSpecInit /\ [][ValueNext]_vars

\* the extractor functions on bounded pages
ExtractSpecInit ==
    PriceIdle /\ MatchIdle /\ FillIdle /\ ValueIdle /\ ExtractInit
        /\ ShellIdle
ExtractNext ==
    \/ DetectDealType /\ UNCHANGED <<priceVars, matchVars, fillVars, valueVars, shellVars>>
    \/ CollectNumericField /\ UNCHANGED <<priceVars, matchVars, fillVars, valueVars, shellVars>>
    \/ CollectGalleryImages /\ UNCHANGED <<priceVars, matchVars, fillVars, valueVars, shellVars>>
    \/ ScrapeMappedAttribute /\ UNCHANGED <<priceVars, matchVars, fillVars, valueVars, shellVars>>
    \/ TransformAddress /\ UNCHANGED <<priceVars, matchVars, fillVars, valueVars, shellVars>>
    \/ LocationStreetValue /\ UNCHANGED <<priceVars, matchVars, fillVars, valueVars, shellVars>>
SpecExtract == ExtractSpecInit /\ [][ExtractNext]_vars

\* the fetchImages listener on bounded requests; every promise callback
\* that is ready is run by the event loop
FetchSpecInit == CoreIdle /\ ImageInit /\ TabIdle /\ StoreInit /\ LoaderIdle /\ SearchInit
FetchNext ==
    \/ FetchImagesListener /\ UNCHANGED <<coreVars, tabVars, storeVars, loaderVars, searchVars>>
    \/ (\E i \in 1..Len(imUrls) : FetchSettles(i)) /\ UNCHANGED <<coreVars, tabVars, storeVars, loaderVars, searchVars>>
    \/ (\E i \in 1..Len(imUrls) : BlobSettles(i)) /\ UNCHANGED <<coreVars, tabVars, storeVars, loaderVars, searchVars>>
    \/ (\E i \in 1..Len(imUrls) : ReaderLoadEnd(i)) /\ UNCHANGED <<coreVars, tabVars, storeVars, loaderVars, searchVars>>
    \/ PromiseAllThen /\ UNCHANGED <<coreVars, tabVars, storeVars, loaderVars, searchVars>>
SpecFetch == FetchSpecInit /\ [][FetchNext]_vars /\ WF_vars(FetchNext)

\* scrapeListingsInParallel on bounded URL lists: promise callbacks and
\* timers that are ready are run; a tab need not ever finish loading
TabSpecInit == CoreIdle /\ ImageIdle /\ TabInit /\ StoreInit /\ LoaderIdle /\ SearchInit
TabNext ==
    \/ MappingsSettle /\ UNCHANGED <<coreVars, imageVars, storeVars, loaderVars, searchVars>>
    \/ CreateTab /\ UNCHANGED <<coreVars, imageVars, storeVars, loaderVars, searchVars>>
    \/ CreateTabFails /\ UNCHANGED <<coreVars, imageVars, storeVars, loaderVars, searchVars>>
    \/ (\E t \in 1..tCount : LoadTimeout(t)) /\ UNCHANGED <<coreVars, imageVars, storeVars, loaderVars, searchVars>>
    \/ AllWaitsResolved /\ UNCHANGED <<coreVars, imageVars, storeVars, loaderVars, searchVars>>
    \/ StartScraping /\ UNCHANGED <<coreVars, imageVars, storeVars, loaderVars, searchVars>>
    \/ (\E t \in 1..tCount : ScrapeSettles(t)) /\ UNCHANGED <<coreVars, imageVars, storeVars, loaderVars, searchVars>>
    \/ (\E t \in 1..tCount : RemoveSettles(t)) /\ UNCHANGED <<coreVars, imageVars, storeVars, loaderVars, searchVars>>
    \/ ParallelReturns /\ UNCHANGED <<coreVars, imageVars, storeVars, loaderVars, searchVars>>
    \/ (\E t \in 1..tCount : TabCompletes(t)) /\ UNCHANGED <<coreVars, imageVars, storeVars, loaderVars, searchVars>>
\* the steps at which no tab finishes loading: nothing obliges the browser
\* to finish loading a page
TabProgress ==
    TabNext /\ \A t \in 1..tCount : tLoad'[t] = "complete" => tLoad[t] = "complete"
SpecTabs == TabSpecInit /\ [][TabNext]_vars /\ WF_vars(TabProgress)

\* any sequence of calls of the four storage functions
StoreSpecInit == CoreIdle /\ ImageIdle /\ TabIdle /\ StoreInit /\ LoaderIdle /\ SearchInit
StoreNext ==
    \/ ClockTick /\ UNCHANGED <<coreVars, imageVars, tabVars, loaderVars, searchVars>>
    \/ (\E l \in ListingArgs : SaveLatestListing(l)) /\ UNCHANGED <<coreVars, imageVars, tabVars, loaderVars, searchVars>>
    \/ (\E b \in BatchArgs : SaveSearchResults(b)) /\ UNCHANGED <<coreVars, imageVars, tabVars, loaderVars, searchVars>>
    \/ GetLatestListing /\ UNCHANGED <<coreVars, imageVars, tabVars, loaderVars, searchVars>>
    \/ GetSearchResults /\ UNCHANGED <<coreVars, imageVars, tabVars, loaderVars, searchVars>>
SpecStore == StoreSpecInit /\ [][StoreNext]_vars

\* loadMappings on every way the fetch can settle and on bounded texts
LoaderSpecInit == CoreIdle /\ ImageIdle /\ TabIdle /\ StoreInit /\ LoaderInit /\ SearchInit
LoaderNext ==
    \/ MappingsFetchSettles /\ UNCHANGED <<coreVars, imageVars, tabVars, storeVars, searchVars>>
    \/ ParseMappings /\ UNCHANGED <<coreVars, imageVars, tabVars, storeVars, searchVars>>
    \/ CallerInjects /\ UNCHANGED <<coreVars, imageVars, tabVars, storeVars, searchVars>>
SpecLoader == LoaderSpecInit /\ [][LoaderNext]_vars

\* searches run one after another on one page
SearchSpecInit == CoreIdle /\ ShellIdle
SearchNext ==
    \/ SearchSubmitted /\ UNCHANGED <<coreVars, imageVars, tabVars, storeVars, loaderVars>>
    \/ ClickSearchButton /\ UNCHANGED <<coreVars, imageVars, tabVars, storeVars, loaderVars>>
    \/ FilterResults /\ UNCHANGED <<coreVars, imageVars, tabVars, storeVars, loaderVars>>
    \/ CollectUrls /\ UNCHANGED <<coreVars, imageVars, tabVars, storeVars, loaderVars>>
    \/ ObserverCollects /\ UNCHANGED <<coreVars, imageVars, tabVars, storeVars, loaderVars>>
    \/ ObserverDisconnects /\ UNCHANGED <<coreVars, imageVars, tabVars, storeVars, loaderVars>>
    \/ PopupReadsUrls /\ UNCHANGED <<coreVars, imageVars, tabVars, storeVars, loaderVars>>
    \/ PopupScrapes /\ UNCHANGED <<coreVars, imageVars, tabVars, storeVars, loaderVars>>
SpecSearch == SearchSpecInit /\ [][SearchNext]_vars

\* the street typing of fillLocationForm on bounded street values; timers
\* that are due are run
StreetSpecInit ==
    PriceIdle /\ MatchIdle /\ StreetInit /\ ValueIdle /\ ExtractIdle /\ ShellIdle
StreetNext ==
    \/ StreetFocus /\ UNCHANGED <<priceVars, matchVars, valueVars, extractVars, shellVars>>
    \/ StreetClear /\ UNCHANGED <<priceVars, matchVars, valueVars, extractVars, shellVars>>
    \/ TypeStreet /\ UNCHANGED <<priceVars, matchVars, valueVars, extractVars, shellVars>>
    \/ StreetSelect /\ UNCHANGED <<priceVars, matchVars, valueVars, extractVars, shellVars>>
SpecStreet == StreetSpecInit /\ [][StreetNext]_vars /\ WF_vars(StreetNext)

-----------------------------------------------------------------------------
(* Properties of the price parser (checked under SpecPrice).               *)

\* the price text once whitespace and every character other than digits,
\* comma and dot are removed
CleanedPrice == CleanPrice(Trim(priceText))

HasComma == Includes(CleanedPrice, <<",">>)
HasDot == Includes(CleanedPrice, <<".">>)

\* how many times c occurs in v
Occurrences(v, c) == Len(SelectSeq(v, LAMBDA x : x = c))

\* the number written by v when mark is its decimal marker: the digits
\* before the first mark, and after it the digits up to the next separator
ReadWithDecimalMark(v, mark) ==
    LET k  == IndexOf(v, mark)
        ip == SubSeq(v, 1, k - 1)
        fp == TakeDigits(SubSeq(v, k + 1, Len(v)))
    IN  IF ip = <<>> /\ fp = <<>> THEN NoNumber ELSE MkNumber(ip, fp)

\* the whole number written by the digits of v
ReadDigits(v) == IF v = <<>> THEN NoNumber ELSE MkNumber(v, <<>>)

\* C1: a cleaned price text holding both a comma and a dot is read with the
\* kind of its right-most separator as the decimal marker and with every
\* occurrence of the other kind dropped as thousands grouping; "105,000.50"
\* and "105.000,50" both give 105000.5.  (Where the decimal marker itself
\* occurs more than once, the text is read up to its second occurrence.)
C1_RightmostSeparatorIsDecimal ==
    /\ (pricePc = "done" /\ HasComma /\ HasDot) =>
          LET mark  == IF LastIndexOf(CleanedPrice, ".") > LastIndexOf(CleanedPrice, ",")
                       THEN "." ELSE ","
              other == IF mark = "." THEN "," ELSE "."
          IN  priceDetail = ReadWithDecimalMark(RemoveAll(CleanedPrice, {other}), mark)
    /\ (/\ pricePc = "done"
        /\ priceText \in { <<"1","0","5",",","0","0","0",".","5","0">>,
                           <<"1","0","5",".","0","0","0",",","5","0">> })
          => priceDetail = [n |-> 1050005, s |-> 1]

\* "105.000,50" has been parsed, and gave 105000.5
C1_Witness ==
    /\ pricePc = "done"
    /\ priceText = <<"1","0","5",".","0","0","0",",","5","0">>
    /\ priceDetail = [n |-> 1050005, s |-> 1]

\* C2: a cleaned price text holding commas and no dot is read with the
\* comma as decimal marker only when at most two digits follow the last
\* comma and there is exactly one comma; in every other case all commas
\* are dropped ("105,50" gives 105.5, "105,000" gives 105000, a text with
\* two or more commas is never read as a decimal).
C2_CommaOnlyRule ==
    (pricePc = "done" /\ HasComma /\ ~HasDot) =>
        priceDetail =
            IF Len(LastPart(CleanedPrice, ",")) <= 2 /\ Occurrences(CleanedPrice, ",") = 1
            THEN ReadWithDecimalMark(CleanedPrice, ",")
            ELSE ReadDigits(RemoveAll(CleanedPrice, {","}))

\* C3: a cleaned price text holding dots and no comma is read as the
\* comma-only rule reads one with commas: the dot is the decimal marker
\* only when at most two digits follow the last dot and there is exactly
\* one dot; in every other case all dots are dropped.
C3_DotOnlyMirrorsComma ==
    (pricePc = "done" /\ ~HasComma /\ HasDot) =>
        priceDetail =
            IF Len(LastPart(CleanedPrice, ".")) <= 2 /\ Occurrences(CleanedPrice, ".") = 1
            THEN ReadWithDecimalMark(CleanedPrice, ".")
            ELSE ReadDigits(RemoveAll(CleanedPrice, {"."}))

-----------------------------------------------------------------------------
(* Properties of the option matching (checked under SpecMatch).            *)

\* C10: whenever the candidates of a field hold an option whose trimmed
\* text equals the target, the option clicked is one whose trimmed text
\* equals the target, wherever an option matching only by containment
\* stands in the list; for rooms, bedrooms, bathrooms, status, condition,
\* project type and the street autocomplete.
C10_ExactOptionPreferred ==
    (/\ mPc = "done"
     /\ \E i \in 1..Len(mOptions) :
           IsOptionDiv(mOptions[i]) /\ Trim(mOptions[i].text) = mTarget)
        => /\ mClicked # 0
           /\ Trim(mOptions[mClicked].text) = mTarget

-----------------------------------------------------------------------------
(* Properties of the autofill sequence (checked under Spec).               *)

\* function f has been called
Started(f) == \E i \in 1..Len(invoked) : invoked[i] = f

\* the retry loop of step has thrown its error
Threw(step) == \E i \in 1..Len(thrown) : thrown[i].step = step

GateSteps == {"category", "propertyType", "dealType"}

\* C4: the retry loop of each gate step runs its tick at most four times
\* (the first try and 3 retries 500 ms apart), that of the bathroom fill at
\* most six times (5 retries 500 ms apart); its failure path runs at most
\* once, only on the tick after the last retry, and once it has run no
\* timer of the loop is pending.
C4_RetryLoopsStopAfterBudget ==
    /\ \A s \in GateSteps :
          /\ failures[s] <= 1
          /\ retryCount[s] <= 3
          /\ ticks[s] <= 4
          /\ ticks[s] = 4 <=> failures[s] = 1
          /\ failures[s] = 1 => retryCount[s] = 3 /\ ~HasTimer(RetryCallback(s))
    /\ failures["bathroom"] <= 1
    /\ retryCount["bathroom"] <= 5
    /\ ticks["bathroom"] <= 6
    /\ failures["bathroom"] = 1 =>
          /\ ticks["bathroom"] = 6
          /\ retryCount["bathroom"] = 5
          /\ ~HasTimer("tryFillBathroom")
          /\ Started("fillBathroomField")
    /\ \A i \in 1..Len(timers) :
          timers[i].cb \in {RetryCallback(s) : s \in RetrySteps}
              => timers[i].rem <= 500

\* the bathroom container was never found: the loop has stopped after its
\* sixth tick, the failure path has run, and no timer is left
C4_Witness ==
    /\ failures["bathroom"] = 1
    /\ ticks["bathroom"] = 6
    /\ timers = <<>>

\* C5: once a gate step has thrown, no later step is started: after the
\* category's error selectPropertyType is never called, after the property
\* type's selectDealType is never called, after the deal type's none of
\* uploadImages, fillLocation and fillRemainingFields is; and no timer is
\* left to start one.
C5_GateFailureStopsSequence ==
    /\ Threw("category") => ~Started("selectPropertyType")
    /\ Threw("propertyType") => ~Started("selectDealType")
    /\ Threw("dealType") =>
          /\ ~Started("uploadImages")
          /\ ~Started("fillLocation")
          /\ ~Started("fillRemainingFields")
    /\ thrown # <<>> => timers = <<>> /\ Len(thrown) = 1

\* the deal type and its alternative were not found: the error is thrown
\* after the clicks of the category and of the property type
C5_Witness ==
    /\ Threw("dealType")
    /\ Len(clicked) = 2
    /\ Started("selectDealType")

\* C6: when a gate step has thrown and the popup's handler is done, the
\* popup's status is an error status, never "Autofill complete.".
C6_GateFailureShownInPopup ==
    (thrown # <<>> /\ popupPc = "done") => popupStatus # "Autofill complete."

\* the fills fillRemainingFields schedules
ScheduledFills == {RemainingFieldTimers[i].cb : i \in 1..Len(RemainingFieldTimers)}

\* the timer of the deal-type click is pending
SettlePending == HasTimer("dealTypeSettled") \/ HasTimer("altDealTypeSettled")

\* C7: once a deal-type element is clicked, every later step is started or
\* still has the timer that starts it, whatever was found or not found
\* on the way; when no timer is left, uploadImages, fillLocation,
\* fillRemainingFields and every fill function it calls or schedules have
\* all been called.
C7_OptionalFailuresDoNotBlock ==
    Len(clicked) = 3 =>
        /\ Started("uploadImages") \/ SettlePending
        /\ Started("fillLocation") \/ HasTimer("fillLocation") \/ SettlePending
        /\ \/ Started("fillRemainingFields")
           \/ HasTimer("fillRemainingFields")
           \/ SettlePending
        /\ Started("fillRemainingFields") =>
              /\ Started("fillPriceField")
              /\ Started("fillRoomsField")
              /\ \A f \in ScheduledFills : Started(f) \/ HasTimer(f)
        /\ Started("fillBathroomFieldWithRetry") =>
              Started("fillBathroomField") \/ HasTimer("tryFillBathroom")
        /\ timers = <<>> =>
              \A f \in ScheduledFills \cup
                       {"uploadImages", "fillLocation", "fillRemainingFields",
                        "fillPriceField", "fillRoomsField", "fillBathroomField"} :
                  Started(f)

\* neither the street input, nor the price input, nor the bathroom
\* container was found, the upload is over, and every step has been called
C7_Witness ==
    /\ Len(clicked) = 3
    /\ timers = <<>>
    /\ street.pc = "idle"
    /\ priceAttempts = 4
    /\ priceWrites = 0
    /\ failures["bathroom"] = 1
    /\ upload = "returned"
    /\ Started("fillDescriptionExplicit")

\* the steps in the order they are declared and numbered
DeclaredOrder ==
    << "selectPropertyType", "selectDealType", "uploadImages", "fillLocation",
       "fillRemainingFields", "fillPriceField", "fillRoomsField",
       "fillBedroomField", "fillAreaField", "fillFloorField",
       "fillTotalFloorField", "fillProjectTypeField",
       "fillBathroomFieldWithRetry", "fillStatusField", "fillConditionField",
       "fillOtherInformation", "fillShortDescription",
       "fillDescriptionExplicit" >>

\* the place of step f in the declared order (0: not a step of it)
DeclaredPlace(f) ==
    IF \E k \in 1..Len(DeclaredOrder) : DeclaredOrder[k] = f
    THEN CHOOSE k \in 1..Len(DeclaredOrder) : DeclaredOrder[k] = f
    ELSE 0

\* C8: the steps are started in their declared order: no step is called
\* before a step declared earlier than it (... project type, bathroom,
\* status, condition, ...).
C8_StepsStartInDeclaredOrder ==
    \A i \in 1..Len(invoked) : \A j \in (i + 1)..Len(invoked) :
        (DeclaredPlace(invoked[i]) # 0 /\ DeclaredPlace(invoked[j]) # 0)
            => DeclaredPlace(invoked[i]) < DeclaredPlace(invoked[j])

\* the pending timers other than the upload's check
StepTimers == SelectSeq(timers, LAMBDA t : t.cb # "uploadCheck")

\* C9: selectDealType works with one of the three canonical tokens (the
\* sale token when the deal type is missing, the rent token for a daily
\* rent); when the loop for it is exhausted and the other deal type's
\* element is found (the rent token for sale, otherwise the sale token),
\* that element is clicked, nothing is thrown, and uploadImages,
\* fillLocation and fillRemainingFields are scheduled with the delays of
\* the primary path.
C9_DealTypeNormalizedWithAlternative ==
    /\ Started("selectDealType") =>
          /\ dealTypeVar \in CanonicalDealTypes
          /\ listing.dealType = <<>> => dealTypeVar = Ikideba
          /\ listing.dealType = KiravdebaDghiurad => dealTypeVar = Kiravdeba
          /\ listing.dealType \in CanonicalDealTypes => dealTypeVar = listing.dealType
    /\ (Len(clicked) = 3 /\ failures["dealType"] = 0) => clicked[3] = dealTypeVar
    /\ (failures["dealType"] = 1 /\ ~Threw("dealType")) =>
          /\ ticks["dealType"] = 4
          /\ Len(clicked) = 3
          /\ clicked[3] = IF dealTypeVar = Ikideba THEN Kiravdeba ELSE Ikideba
          /\ thrown = <<>>
    /\ (Len(clicked) = 3 /\ ~Started("uploadImages")) =>
          /\ Len(timers) = 1
          /\ timers[1].rem = 1000
          /\ timers[1].cb = IF failures["dealType"] = 1
                            THEN "altDealTypeSettled" ELSE "dealTypeSettled"
    /\ (Len(clicked) = 3 /\ Started("uploadImages") /\ ~Started("fillLocation")) =>
          StepTimers = << [cb |-> "fillLocation", rem |-> 1000],
                          [cb |-> "fillRemainingFields", rem |-> 2500] >>

\* a missing deal type became the sale token, which was not found; the
\* rent element was clicked instead and the remaining fields were reached
C9_Witness ==
    /\ listing.dealType = <<>>
    /\ failures["dealType"] = 1
    /\ Len(clicked) = 3
    /\ clicked[3] = Kiravdeba
    /\ thrown = <<>>
    /\ Started("fillRemainingFields")

-----------------------------------------------------------------------------
(* Properties of the fill values (checked under SpecValue).                *)

\* value v is the count k, as a number or as its decimal text
IsCount(v, k) == v = Num(k) \/ v = Str(IntToDigits(k))

\* C11: a price stored as text is written into the price input as the
\* number the text parses to ("105,000.50$" is written as 105000.5), never
\* as the raw text with its grouping separators and currency symbol.
C11_PriceWrittenIsParsedNumber ==
    LET price == Lookup(fProps, KeyPrice)
    IN  (/\ fPc = "done" /\ fField = "price"
         /\ price.kind = "string"
         /\ parsePriceText(price.text) # NoNumber)
            => fSearch = Str(NumberToString(parsePriceText(price.text)))

\* C12: a room count of 9 or more is searched as "8+" and a bathroom count
\* greater than 5 as "5+"; a count from 1 up to the cap is searched as its
\* own number.
C12_CountsAboveCapBucketed ==
    \A k \in 1..MaxCount :
        /\ (/\ fPc = "done" /\ fField = "rooms"
            /\ IsCount(Lookup(fProps, KeyRooms), k))
              => fSearch = IF k >= 9 THEN Str(<<"8", "+">>)
                           ELSE Str(IntToDigits(k))
        /\ (/\ fPc = "done" /\ fField = "bathrooms"
            /\ IsCount(BathroomValue(fProps, fParams), k))
              => fSearch = IF k > 5 THEN Str(<<"5", "+">>)
                           ELSE Str(IntToDigits(k))

\* nine rooms have been searched as "8+"
C12_Witness ==
    /\ fPc = "done"
    /\ fField = "rooms"
    /\ fProps = <<Entry(KeyRooms, Num(9))>>
    /\ fSearch = Str(<<"8", "+">>)

\* the record's bathroom entries, all under the four exact keys, all hold a
\* zero (0 or "0") or the text of the none token, and there is one
BathroomStoredAsNone ==
    LET entries == fProps \o fParams
    IN  /\ entries # <<>>
        /\ \A i \in 1..Len(entries) :
              /\ entries[i].key \in {KeyBathroomPoints, KeyBathroomPointsSpaced,
                                     KeyWetPointShort, KeyWetPoint}
              /\ entries[i].value \in {Num(0), Str(<<"0">>), Str(NoneToken)}

\* C13: a bathroom value of zero (0 or "0") or the textual none value,
\* wherever the record stores it, makes fillBathroomField search the none
\* token; it is never taken for "no bathroom value found".
C13_ZeroBathroomIsNoneToken ==
    (fPc = "done" /\ fField = "bathrooms" /\ BathroomStoredAsNone)
        => fSearch = Str(NoneToken)

\* C14: a bedroom count above the largest option the group offers is not
\* searched as its raw number.
C14_BedroomCountClamped ==
    \A k \in 1..MaxCount :
        (/\ fPc = "done" /\ fField = "bedrooms"
         /\ IsCount(Lookup(fProps, KeyBedrooms), k)
         /\ k > fLargestOption)
            => fSearch # Str(IntToDigits(k))

\* C15: for every non-empty source string each mapping function returns a
\* token of its target vocabulary, never "no mapping".
C15_MappingsAlwaysGiveToken ==
    /\ (/\ fPc = "done" /\ fField = "status"
        /\ Truthy(StatusValue(fProps, fParams)))
          => fMapped.kind = "string" /\ fMapped.text \in StatusTokens
    /\ (/\ fPc = "done" /\ fField = "condition"
        /\ Truthy(ConditionValue(fProps, fParams)))
          => fMapped.kind = "string" /\ fMapped.text \in ConditionTokens

-----------------------------------------------------------------------------
(* Properties of the extractor functions (checked under SpecExtract).      *)

\* C16: detectDealType returns the daily-rent phrase whenever the page text
\* contains it (never its prefix, the rent phrase, in that case); in general
\* it returns the first of daily rent, rent, pledge, sale that occurs
\* anywhere in the page text, and null when none occurs.
C16_LongestDealTypeFirst ==
    (xPc = "done" /\ xStep = "detectDealType") =>
        xResult =
            IF Includes(xText, KiravdebaDghiurad) THEN Str(KiravdebaDghiurad)
            ELSE IF Includes(xText, Kiravdeba) THEN Str(Kiravdeba)
            ELSE IF Includes(xText, Giravdeba) THEN Str(Giravdeba)
            ELSE IF Includes(xText, Ikideba) THEN Str(Ikideba)
            ELSE Undefined

\* a page holding the daily-rent phrase after another deal-type phrase
C16_Witness ==
    /\ xPc = "done" /\ xStep = "detectDealType"
    /\ xText = Ikideba \o KiravdebaDghiurad
    /\ xResult = Str(KiravdebaDghiurad)

\* the numeric text with one trailing non-digit character removed
WithoutUnit(t) ==
    IF t # <<>> /\ t[Len(t)] \notin Digits
    THEN Trim(SubSeq(t, 1, Len(t) - 1)) ELSE t

\* t with every character other than digits, comma and dot removed and the
\* first comma turned into a dot
NumericPart(t) ==
    LET kept == SelectSeq(WithoutUnit(t),
                          LAMBDA c : c \in Digits \cup {",", "."})
        i == IndexOf(kept, ",")
    IN  IF i = 0 THEN kept ELSE [kept EXCEPT ![i] = "."]

\* C18: for a numeric field, one trailing non-digit character is removed,
\* then every character other than digits, comma and dot; the decimal comma
\* becomes a dot and the parsed float is stored; when the parse fails the
\* original string is stored.
C18_NumericFieldParsed ==
    (xPc = "done" /\ xStep = "numericField" /\ xText # <<>>) =>
        xResult =
            IF ParseFloat(NumericPart(xText)) # NoNumber
            THEN NumberValue(ParseFloat(NumericPart(xText)))
            ELSE Str(xText)

\* "1,5 m" followed by the superscript two is stored as the number 1.5
C18_Witness ==
    /\ xPc = "done" /\ xStep = "numericField"
    /\ xText = <<"1", ",", "5", " ", "m", "sq">>
    /\ xResult = NumberValue([n |-> 15, s |-> 1])

\* the absolute URL an img node resolves to (Undefined when it has none)
AbsoluteOf(img) == toAbsoluteUrl(rawSource(img))

\* the position of the first img node that resolves to the URL u
FirstNode(u) ==
    CHOOSE i \in 1..Len(xImgs) :
        /\ AbsoluteOf(xImgs[i]) = Str(u)
        /\ \A j \in 1..(i - 1) : AbsoluteOf(xImgs[j]) # Str(u)

\* the img nodes without those that resolve to the URL of an earlier node
WithoutLaterDuplicates ==
    LET keep == {i \in 1..Len(xImgs) :
                    \A j \in 1..(i - 1) :
                        ~Truthy(AbsoluteOf(xImgs[i]))
                            \/ AbsoluteOf(xImgs[j]) # AbsoluteOf(xImgs[i])}
        RECURSIVE pick(_)
        pick(i) == IF i > Len(xImgs) THEN <<>>
                   ELSE IF i \in keep THEN <<xImgs[i]>> \o pick(i + 1)
                   ELSE pick(i + 1)
    IN  pick(1)

\* C19: collectGalleryImages returns every distinct absolute URL of the img
\* nodes exactly once, in the order of its first occurrence; an img node
\* that resolves to an already seen URL adds no entry, and the list with
\* its later duplicates removed gives the same result.
C19_GalleryUrlsOnceInFirstOrder ==
    (xPc = "done" /\ xStep = "collectGalleryImages") =>
        /\ {xResultList[i] : i \in 1..Len(xResultList)} =
               {AbsoluteOf(img).text :
                    img \in {xImgs[i] : i \in 1..Len(xImgs)} \cap
                            {n \in ImgNodes : Truthy(AbsoluteOf(n))}}
        /\ \A i, j \in 1..Len(xResultList) :
               i < j => /\ xResultList[i] # xResultList[j]
                        /\ FirstNode(xResultList[i]) < FirstNode(xResultList[j])
        /\ xResultList = collectGalleryImages(WithoutLaterDuplicates)

\* three img nodes, the first two resolving to one URL through different
\* attributes
C19_Witness ==
    /\ xPc = "done" /\ xStep = "collectGalleryImages"
    /\ Len(xImgs) = 3
    /\ rawSource(xImgs[1]) # rawSource(xImgs[2])
    /\ AbsoluteOf(xImgs[1]) = AbsoluteOf(xImgs[2])
    /\ Len(xResultList) = 2

\* a selector getFirstTextMatch does not skip: not empty, without escaped
\* brackets, accepted by querySelector, and matching an element whose
\* text content is not empty
Answers(selector) ==
    /\ selector # <<>>
    /\ ~Includes(selector, <<"\\", "[">>)
    /\ ~Includes(selector, <<"\\", "]">>)
    /\ normalizeSelector(selector).text \notin InvalidSelectors
    /\ xPage[normalizeSelector(selector).text].kind = "element"
    /\ xPage[normalizeSelector(selector).text].text # <<>>

\* the trimmed text of the element the selector matches
AnswerOf(selector) == Trim(xPage[normalizeSelector(selector).text].text)

\* C20: scrapeMappedAttribute gives the mapped selector's text when the
\* mapping exists and yields a non-empty text, and otherwise the text of the
\* first fallback selector, in list order, that is valid after normalization
\* and matches an element with non-empty text content; every other selector
\* is skipped, and null is returned when none is left.
C20_MappedThenFirstFallback ==
    (xPc = "done" /\ xStep = "scrapeMappedAttribute") =>
        xResult =
            IF /\ xMapped # Undefined
               /\ Answers(xMapped.text)
               /\ AnswerOf(xMapped.text) # <<>>
            THEN Str(AnswerOf(xMapped.text))
            ELSE IF \E i \in 1..Len(xSelectors) : Answers(xSelectors[i])
            THEN Str(AnswerOf(xSelectors[
                     CHOOSE i \in 1..Len(xSelectors) :
                         /\ Answers(xSelectors[i])
                         /\ \A j \in 1..(i - 1) : ~Answers(xSelectors[j])]))
            ELSE Undefined

\* the mapped selector matches an element without text, the first fallback
\* is a syntax error, and the second fallback gives the text
C20_Witness ==
    /\ xPc = "done" /\ xStep = "scrapeMappedAttribute"
    /\ xMapped = Str(<<".", "a">>)
    /\ xPage[<<".", "a">>] = Element(<<>>)
    /\ xSelectors = << <<"[">>, <<".", "a", "\\", ":", "b">> >>
    /\ xResult = Str(<<"u">>)

\* C17: transformAddress followed by fillLocationForm's normalization turns
\* every address "{district} - {microdistrict} m/r" into the street value
\* "{microdistrict} mikroraioni - {district}", and the plateau address
\* "nucubiZis pl. II m/r. I kvart." into "nucubiZis II plato".
C17_AddressPipeline ==
    (xPc = "done" /\ xStep = "address") =>
        /\ \A d \in Districts, m \in Microdistricts :
               xText = MicrodistrictAddress(d, m) =>
                   xResult = Str(m \o <<" ">> \o Mikroraioni
                                   \o <<" ", "-", " ">> \o d)
        /\ xText = PlateauAddress =>
               xResult = Str(Nutsubidzis \o <<" ", "I", "I", " ">> \o Plato)

-----------------------------------------------------------------------------
(* Properties of the fetchImages listener (checked under SpecFetch).       *)

\* the entries of the URLs whose fetch succeeded (an OK response whose
\* body arrived), in the order of the request
RECURSIVE FetchedEntries(_)
FetchedEntries(i) ==
    IF i > Len(imUrls) THEN <<>>
    ELSE IF imPlan[i] \notin {"rejects", "notOk", "blobRejects"}
    THEN <<ImageEntry(imUrls, i)>> \o FetchedEntries(i + 1)
    ELSE FetchedEntries(i + 1)

\* C21: handling a fetchImages message always ends with one response
\* {success: true, images}, images holding exactly one entry for each URL
\* whose fetch succeeded, in the order of the request, and none for a URL
\* whose fetch failed or was not OK.
C21_FetchImagesAlwaysAnswered ==
    /\ <>(imPc = "responded")
    /\ [](imPc = "responded" =>
            imResponses = <<[success |-> TRUE, images |-> FetchedEntries(1)]>>)

-----------------------------------------------------------------------------
(* Properties of scrapeListingsInParallel (SpecTabs).                      *)

\* C22: every tab that scrapeListingsInParallel opened has had
\* chrome.tabs.remove called for it when the function returns, whether its
\* scrape returned data, nothing or failed, and every opened tab has been
\* scraped and closed even when another URL could not be opened or another
\* tab's scrape failed.
C22_EveryOpenedTabClosed ==
    tPc = "returned" =>
        \A t \in Range(tOpened) :
            /\ t \in tRemoved
            /\ tScrape[t] = "done"
            /\ tResult[t] \in {"data", "empty", "threw"}

\* two URLs: the first tab's scrape failed and the second tab was still
\* scraped and closed; the function has returned the second listing
C22_Witness ==
    /\ tPc = "returned"
    /\ tOpened = <<1, 2>>
    /\ tResult = <<"threw", "data">>
    /\ tRemoved = {1, 2}
    /\ tReturned = <<2>>

\* C27: the load wait of every opened tab is resolved, by the tab's
\* 'complete' event or by its 15 s timer, and its listener removed, by the
\* time the waits are over; the scrape phase is always reached and every
\* opened tab is scraped, even when a tab never finishes loading.
C27_LoadWaitAlwaysEnds ==
    /\ [](tPc \in {"settle", "scrape", "returned"} =>
            \A t \in Range(tOpened) :
                /\ tWait[t] \in {"event", "timeout"}
                /\ tListener[t] = "removed")
    /\ <>(tPc \in {"scrape", "returned"})
    /\ <>(tPc = "returned" /\ \A t \in Range(tOpened) : tResult[t] # "none")

\* a tab that never finished loading was released by its timer and scraped,
\* next to a tab released by its 'complete' event
C27_Witness ==
    /\ tPc = "returned"
    /\ \E t, u \in Range(tOpened) :
          /\ tLoad[t] = "loading" /\ tWait[t] = "timeout" /\ tResult[t] = "data"
          /\ tWait[u] = "event" /\ tListener[u] = "removed"

\* C29: no tab reports 'complete' before its onUpdated listener is
\* registered.
C29_CompleteEventNeverMissed == tMissed = {}

-----------------------------------------------------------------------------
(* Properties of the listing storage (SpecStore).                          *)

\* C23: after any sequence of completed saves each slot reads back the
\* listing (or batch) and the timestamp of its most recent completed save:
\* what the getters return is what the last save of that slot wrote, the
\* record and its timestamp are present together, and neither a save to the
\* other slot nor a rejected save changes what a slot reads.
C23_LastWriteWins ==
    /\ getLatestListing(stStore) = stSavedListing
    /\ getSearchResults(stStore) = stSavedResults
    /\ (stStore["latestListing"] = {}) = (stStore["latestScrapeAt"] = {})
    /\ (stStore["searchResults"] = {}) = (stStore["searchResultsScrapedAt"] = {})
    /\ stLastOp = "getLatestListing" => stGotLatest = {stSavedListing}
    /\ stLastOp = "getSearchResults" => stGotResults = {stSavedResults}

\* both slots written at different times, the latest listing read back, and
\* then a save without a listing rejected
C23_Witness ==
    /\ stLastOp = "saveLatestListing" /\ stThrown
    /\ stGotLatest = {[listing |-> {"L2"}, scrapedAt |-> {2}]}
    /\ stSavedListing = [listing |-> {"L2"}, scrapedAt |-> {2}]
    /\ stSavedResults = [listings |-> <<"L1">>, scrapedAt |-> {1}]

-----------------------------------------------------------------------------
(* Properties of the mapping loader (SpecLoader).                          *)

\* C24: when mappings.csv is missing, is answered with a status that is not
\* OK, or has fewer than two non-empty lines, loadMappings ends by returning
\* the empty mapping and not by throwing.
C24_LoadMappingsNeverThrows ==
    (ldFetch \in {"rejects", "notOk"} \/ ~HasTwoLines(ldText)) =>
        /\ ldPc # "thrown"
        /\ ldPc = "returned" => ldMappings = NoMappings

-----------------------------------------------------------------------------
(* Properties of the search (SpecSearch).                                  *)

\* C28: the URLs the popup reads, scrapes and saves after a search were
\* collected by that same search.
C28_UrlsOfThisSearch ==
    (sePopup \in {"read", "done"} /\ seRead.urls # "none") => seRead.by = seSearch

-----------------------------------------------------------------------------
(* Option groups and empty option texts (SpecMatch).                       *)

\* C30: the option an option-group fill function clicks never has an empty
\* trimmed text.
C30_NoEmptyOptionClicked ==
    (mPc = "done" /\ mField \in OptionGroups /\ mClicked # 0)
        => Trim(mOptions[mClicked].text) # <<>>

-----------------------------------------------------------------------------
(* The price field's polling (Spec).                                       *)

\* how often fillPriceField did e
PriceEvents(e) == Len(SelectSeq(priceLog, LAMBDA x : x = e))

\* the pending polls of the price field
PricePollTimers == SelectSeq(timers, LAMBDA t : t.cb = "tryActive")

\* C25: fillPriceField first clicks the USD label and then polls for the
\* active input at most 4 times, each further poll set 120 ms after the one
\* before, and no poll is pending once the input was found or 4 polls are
\* over; the price is written at most once, and into the active input only
\* by the poll that found it.
C25_PricePollsBoundedWriteOnce ==
    /\ [](/\ PriceEvents("poll") = priceAttempts
          /\ priceAttempts <= PriceMaxAttempts
          /\ PriceEvents("writeActive") + PriceEvents("writeFallback") = priceWrites
          /\ priceWrites <= 1
          /\ priceLog # <<>> => priceLog[1] = "click" /\ PriceEvents("click") = 1
          /\ \A i \in 1..Len(priceLog) :
                priceLog[i] = "writeActive" =>
                    i > 1 /\ priceLog[i - 1] = "poll" /\ i = Len(priceLog)
          /\ PricePollTimers # <<>> =>
                /\ Len(PricePollTimers) = 1
                /\ PricePollTimers[1].rem <= PricePollDelay
                /\ priceWrites = 0
                /\ priceAttempts < PriceMaxAttempts)
    /\ [][(priceAttempts' # priceAttempts /\ PricePollTimers' # <<>>) =>
              PricePollTimers'[1].rem = PricePollDelay]_vars

\* the active input appeared only at the fourth poll, which wrote the price
C25_Witness ==
    /\ priceLog = <<"click", "poll", "poll", "poll", "poll", "writeActive">>
    /\ priceAttempts = 4
    /\ priceWrites = 1
    /\ PricePollTimers = <<>>

-----------------------------------------------------------------------------
(* The street typing and selection (SpecStreet).                           *)

\* how often the street closure dispatched an event of kind ev
StreetEvents(ev) == Len(SelectSeq(street.events, LAMBDA e : e.ev = ev))

\* the trimmed texts of the options shown at event i
ShownTexts(i) ==
    {Trim(street.events[i].options[j].text) :
        j \in 1..Len(street.events[i].options)}

\* the click at event i took the exact text, else a text starting with the
\* string typed, else a shortest text containing it
BestOptionClicked(i) ==
    LET typed == street.events[i - 1].text
        text == Trim(street.events[i].text)
    IN  /\ text \in ShownTexts(i)
        /\ IF typed \in ShownTexts(i) THEN text = typed
           ELSE IF \E t \in ShownTexts(i) : StartsWith(t, typed)
           THEN StartsWith(text, typed)
           ELSE /\ Includes(text, typed)
                /\ \A t \in ShownTexts(i) : Includes(t, typed) => Len(text) <= Len(t)

\* C26: every typing event extends the text typed by one character; the
\* option clicked after the full string is the exact one, else one with
\* that prefix, else a shortest one containing it; without a match the
\* string without its leading initial is typed at most once more, and
\* without a match for that either Enter is pressed; the closure always
\* ends, with exactly one option click or one Enter.
C26_StreetTypedThenOneSelection ==
    /\ [](LET E == street.events
          IN  /\ \A i \in 1..Len(E) :
                    /\ E[i].ev = "input" =>
                          /\ i > 1
                          /\ E[i - 1].ev \in {"clear", "input"}
                          /\ Len(E[i].text) = Len(E[i - 1].text) + 1
                          /\ SubSeq(E[i].text, 1, Len(E[i - 1].text)) = E[i - 1].text
                    /\ E[i].ev \in {"click", "enter"} =>
                          /\ i = Len(E)
                          /\ i > 1
                          /\ E[i - 1].ev = "input"
                          /\ E[i - 1].text = street.value
                    /\ E[i].ev = "click" => BestOptionClicked(i)
                    /\ E[i].ev = "enter" =>
                          /\ \A t \in ShownTexts(i) : ~Includes(t, street.value)
                          /\ \/ StreetEvents("clear") = 2
                             \/ StripInitial(street.value) \in {street.value, <<>>}
                    /\ (E[i].ev = "clear" /\ i > 1) =>
                          /\ E[i - 1].ev = "input"
                          /\ street.value = StripInitial(E[i - 1].text)
                          /\ street.tried
              /\ StreetEvents("clear") <= 2
              /\ StreetEvents("click") + StreetEvents("enter")
                    = IF street.pc \in {"clicked", "enter"} THEN 1 ELSE 0)
    /\ <>(street.pc \in {"clicked", "enter"})

\* nothing matched "v. k", "k" was typed instead, and of the two options
\* containing it the shorter one, listed second, was clicked
C26_Witness ==
    /\ street.pc = "clicked"
    /\ street.tried
    /\ street.value = <<"k">>
    /\ StreetEvents("clear") = 2
    /\ StreetEvents("input") = 5
    /\ street.events[Len(street.events)].text = <<"b", " ", "k">>
    /\ Len(street.events[Len(street.events)].options) = 2
    /\ street.events[Len(street.events)].options[1].text = <<"a", " ", "b", " ", "k">>

=============================================================================
